---- MODULE Spec2Model ----
(***************************************************************************)
(* Luna SDK RHI: the Metal command buffer (CommandBuffer.cpp) as a state   *)
(* machine.  One action per method of CommandBuffer; the backend (Metal)   *)
(* calls a method issues are logged in `backend`, the call itself in       *)
(* `last_call`.  Contract checks (lucheck_msg) end the process through     *)
(* OS::assert_fail, which calls abort().                                   *)
(***************************************************************************)
EXTENDS Integers, Sequences, FiniteSets, TLC

(* ------------------------------ bounds -------------------------------- *)
\* Longest retain list explored.
MaxObjs == 2
\* Mip levels of the sample textures (array_size is 1).
NumMips == 2
\* Sampler states created for the descriptor set under test.
MaxSamplers == 3
\* Files selected at most in a multi-select file dialog.
MaxFiles == 3

(* ------------------------- program constants -------------------------- *)
\* for(u32 i = 0; i < 8; ++i) over the color attachments
MaxColorAttachments == 8
\* lucheck_msg(index < 16, ...)
MaxDescriptorSets == 16

NULL == "nullptr"
U32_MAX == "U32_MAX"

(* ------------------------------ inputs -------------------------------- *)
DeviceObjects == {"obj_a", "obj_b"}
Buffers == {"buf_a", "buf_b"}
Textures == {"tex_a", "tex_b"}
Resources == Buffers \cup Textures
Subresources == 0..(NumMips - 1)
\* Buffer::m_desc.size of the sample buffers
BufferSize == [b \in Buffers |-> IF b = "buf_a" THEN 100 ELSE 64]
\* Texture::m_desc.width / height of the sample textures
TextureWidth == [t \in Textures |-> IF t = "tex_a" THEN 8 ELSE 4]
TextureHeight == [t \in Textures |-> IF t = "tex_a" THEN 8 ELSE 2]
IndexFormats == {"r16_uint", "r32_uint"}
TextureStates == {"shader_read_cs", "shader_write_cs", "present"}
\* 32-bit values as two 16-bit halves <<high, low>>: 0, 10, 2^30 - 1, 2^30,
\* 2^31 and 2^32 - 1.
W16 == 2^16
StartIndexSamples ==
    { <<0, 0>>, <<0, 10>>, <<16383, 65535>>, <<16384, 0>>, <<32768, 0>>, <<65535, 65535>> }

VARIABLES
    aborted,              \* the process was ended by abort() or by a crash
    m_buffer,             \* MTL command buffer: "null" or its MTL::CommandBufferStatus
    m_render,             \* render encoder is non-null
    m_compute,            \* compute encoder is non-null
    m_blit,               \* blit encoder is non-null
    m_objs,               \* retain list
    m_index_buffer_view,  \* [buffer, format]
    m_primitive_type,
    m_num_threads_per_group,
    m_global_states,      \* tracked per-subresource state of every texture
    last_call,            \* [op, args, status] of the most recent call (or GPU event)
    backend,              \* backend calls issued by the most recent call
    attached,             \* objects passed to attach_device_object since creation / reset
    m_states,             \* D3D12 TextureResource::m_states of every texture
    m_owning_queue_family_index,  \* Vulkan BufferResource field, of every buffer
    last_user,            \* queue family of the last command buffer that used a resource
    m_layout,             \* DescriptorSet::m_layout: a layout, or NULL before init
    m_argument_buffer,    \* DescriptorSet::m_buffer: NullBuffer or NewBuffer(length)
    m_bindings,           \* DescriptorSet::m_bindings
    m_samplers,           \* DescriptorSet::m_samplers: key -> sampler state
    num_samplers,         \* sampler states created so far (the next one's identity)
    written,              \* the argument slots and record indices the last update_descriptors wrote
    held,                 \* resources the caller still holds a reference to
    recorded,             \* resources bound in a set when a recorded command named it
    m_heap,               \* ResourceHeap::m_heap: NullHeap or the D3D12_HEAP_DESC it was created with
    m_heap_usages,        \* the ResourceHeapDesc::usages the heap was created from
    pc,                   \* where each thread is in ResourceHeap::new_resource
    m_owning_thread,      \* TSAssertLock::m_owning_thread of the heap: a thread or NULL
    m_last_thread,        \* TSGuard::m_last_thread of each thread's guard
    placed,               \* the result of each thread's init_as_placed, NULL before
    dialog,               \* the platform dialog call in progress and what it has collected
    runtime,              \* where Luna::init / Luna::close stand and the calls they have made
    mips,                 \* the command buffer generate_mipmaps records on, and where the call stands
    list,                 \* the ShapeDrawList under test
    relocated             \* the objects move_relocate_range works on, and what it returned

\* the command buffer, with the log of its calls
command_buffer == << aborted, m_buffer, m_render, m_compute, m_blit, m_objs,
                     m_index_buffer_view, m_primitive_type, m_num_threads_per_group,
                     m_global_states, last_call, backend, attached >>
\* the resource state tracking of the D3D12 and Vulkan backends
tracking == << m_states, m_owning_queue_family_index, last_user >>
\* what a call on the Metal command buffer leaves alone
\* the descriptor set under test
set_fields == << m_layout, m_argument_buffer, m_bindings, m_samplers, num_samplers, written >>
\* who references the resources
lifetime == << held, recorded >>
\* the D3D12 resource heap under test
heap_fields == << m_heap, m_heap_usages >>
\* what a descriptor set call leaves alone besides the command buffer
\* threads creating resources on the heap
thread_fields == << pc, m_owning_thread, m_last_thread, placed >>
\* the objects of the runtime and the platform layer
\* the file dialogs of the Window module
dialog_fields == << dialog >>
\* the runtime's start-up and shutdown
runtime_fields == << runtime >>
\* the demo application's mipmap generation
mips_fields == << mips >>
\* the objects of the application layer
\* the shape draw list of the VG module
list_fields == << list >>
\* the object array of the relocation functions
relocated_fields == << relocated >>
later_objects == << mips_fields, list_fields, relocated_fields >>
further_objects == << thread_fields, dialog_fields, runtime_fields, later_objects >>
\* what a step of the application layer leaves alone of the objects below it
earlier_objects == << tracking, set_fields, lifetime, heap_fields, thread_fields, dialog_fields, runtime_fields >>
outside_sets == << tracking, heap_fields, further_objects >>
other_objects == << tracking, set_fields, lifetime, heap_fields, further_objects >>

vars == << command_buffer, other_objects >>

encoders == << m_render, m_compute, m_blit >>
bindings == << m_index_buffer_view, m_primitive_type, m_num_threads_per_group >>
\* the fields of CommandBuffer and of the resources
fields == << m_buffer, m_render, m_compute, m_blit, m_objs, m_index_buffer_view,
             m_primitive_type, m_num_threads_per_group, m_global_states >>

(* ------------------------------ helpers ------------------------------- *)
Call(op, args, status) == [op |-> op, args |-> args, status |-> status]
Mtl(fn, args) == [fn |-> fn, args |-> args]

\* OS::assert_fail: prints the message and calls abort(); nothing is recorded.
assert_fail(op, args) ==
    /\ aborted' = TRUE
    /\ last_call' = Call(op, args, "assert_fail")
    /\ backend' = << >>
    /\ UNCHANGED << fields, attached >>

\* A call that returned after issuing `calls` to the backend.
Returned(op, args, status, calls) ==
    /\ last_call' = Call(op, args, status)
    /\ backend' = calls
    /\ UNCHANGED aborted

\* The context assertions of CommandBuffer.hpp.
assert_graphcis_context == m_render
assert_compute_context == m_compute
assert_copy_context == m_blit

\* m_buffer->...CommandEncoder(): a message to a nil command buffer returns nil.
NewEncoder == m_buffer # "null"

\* An image state that starts out owned by a queue family.
ImageGlobalState_owned == [m_image_layout |-> "undefined", m_owning_queue_family_index |-> "family_0"]

\* An image state that starts out in the general layout.
ImageGlobalState_general == [m_image_layout |-> "general", m_owning_queue_family_index |-> U32_MAX]

\* ImageGlobalState as declared: no layout, no owning queue family
ImageGlobalState == [m_image_layout |-> "undefined", m_owning_queue_family_index |-> U32_MAX]

InitCommandBuffer ==
    /\ aborted = FALSE
    /\ m_buffer = "not_enqueued"
    /\ m_render = FALSE
    /\ m_compute = FALSE
    /\ m_blit = FALSE
    /\ m_objs = << >>
    /\ m_index_buffer_view = [buffer |-> NULL, offset |-> 0, size |-> 0, format |-> "unknown"]
    /\ m_primitive_type = NULL
    /\ m_num_threads_per_group = NULL
    /\ m_global_states = [t \in Textures |-> [s \in Subresources |-> ImageGlobalState]]
    /\ last_call = Call("init", << >>, "ok")
    /\ backend = << >>
    /\ attached = << >>

\* TextureDesc of the sample textures: 2D, NumMips mip levels, one array slice.
TextureDesc == [t \in Textures |-> [width |-> TextureWidth[t], height |-> TextureHeight[t], depth |-> 1, mip_levels |-> NumMips, array_size |-> 1]]

\* TextureResource::count_subresources, ImageResource::count_subresources
count_subresources(desc) == desc.mip_levels * desc.array_size

\* A D3D12 texture starts in D3D12_RESOURCE_STATE_COMMON on every subresource; a
\* Vulkan buffer starts with no owning queue family.
InitTracking ==
    /\ m_states = [t \in Textures |-> [i \in 1..count_subresources(TextureDesc[t]) |-> "COMMON"]]
    /\ m_owning_queue_family_index = [b \in Buffers |-> U32_MAX]
    /\ last_user = [r \in Resources |-> NULL]

\* An argument slot: nothing, a buffer address, a texture or a sampler resource id.
Argument(kind, id, value) == [kind |-> kind, id |-> id, value |-> value]
EmptyArgument == Argument("none", NULL, 0)
\* NSPtr<MTL::Buffer>: null, or a buffer of `length` bytes holding num_arguments slots
NullBuffer == [null |-> TRUE, length |-> 0, contents |-> << >>]
NewBuffer(length, num_arguments) == [null |-> FALSE, length |-> length, contents |-> [i \in 0..(num_arguments - 1) |-> EmptyArgument]]

\* A descriptor set object before DescriptorSet::init.
InitDescriptorSet ==
    /\ m_layout = NULL
    /\ m_argument_buffer = NullBuffer
    /\ m_bindings = << >>
    /\ m_samplers = << >>
    /\ num_samplers = 0
    /\ written = { }

\* The caller holds one reference to every resource it created.
InitLifetime ==
    /\ held = Resources
    /\ recorded = { }

\* ComPtr<ID3D12Heap>: null, or the heap CreateHeap made from a D3D12_HEAP_DESC
NullHeap == [null |-> TRUE, SizeInBytes |-> 0, Properties |-> NULL, Alignment |-> 0, Flags |-> { }]

\* A ResourceHeap object before ResourceHeap::init.
InitHeap ==
    /\ m_heap = NullHeap
    /\ m_heap_usages = { }

\* the threads that create resources
Threads == {"thread_1", "thread_2"}

\* No thread is inside new_resource and the heap's TSAssertLock is free.
InitThreads ==
    /\ pc = [t \in Threads |-> "idle"]
    /\ m_owning_thread = NULL
    /\ m_last_thread = [t \in Threads |-> NULL]
    /\ placed = [t \in Threads |-> NULL]

\* No dialog call is in progress.
NoDialog == [pc |-> "idle", dir |-> "", files |-> << >>, lpstrFile |-> << >>, wdir_cur |-> 0, paths |-> << >>]
InitDialog == dialog = NoDialog

\* The runtime before Luna::init.
NoRuntime == [pc |-> "closed", memory_check |-> FALSE, started |-> << >>, stopped |-> << >>, cycles |-> 0]
InitRuntime == runtime = NoRuntime

\* A command buffer with nothing recorded and no generate_mipmaps call in progress.
NoMips == [pc |-> "idle", constants |-> << >>, base |-> 0, calls |-> << >>, m_objs |-> << >>, gpu |-> "idle"]
InitMips == mips = NoMips

\* A buffer reference that holds no buffer.
NullShapeBuffer == [null |-> TRUE, capacity |-> 0]
\* ShapeDrawList as new_shape_draw_list() returns it: new_object<ShapeDrawList>()
\* runs no fallible initialization, so no buffer exists; the drawing state is the
\* one reset() sets.
NoDrawList ==
    [m_draw_calls |-> << >>, m_draw_call_resources |-> << >>,
     m_atlas |-> NULL, m_texture |-> NULL, m_sampler |-> "default_sampler",
     m_origin |-> << 0, 0 >>, m_rotation |-> 0, m_clip_rect |-> << 0, 0, 0, 0 >>,
     m_dc_barrier_index |-> 0, m_target_dc_index |-> 0, m_state_dirty |-> FALSE,
     m_vertex_buffer |-> NullShapeBuffer, m_index_buffer |-> NullShapeBuffer,
     m_vertex_buffer_capacity |-> 0, m_index_buffer_capacity |-> 0,
     m_vertex_buffer_size |-> 0, m_index_buffer_size |-> 0]
InitList == list = NoDrawList

\* the number of objects in the array the relocation functions work on
MemSize == 5
\* a place that holds no object: never constructed, or destructed
Uninitialized == 0
\* An array of MemSize different objects, before any relocation.
ConstructedObjects == [pc |-> "constructed", memory |-> [i \in 1..MemSize |-> i], result |-> 0]
InitRelocated == relocated = ConstructedObjects

Init ==
    /\ InitDialog
    /\ InitList
    /\ InitRelocated
    /\ InitMips
    /\ InitRuntime
    /\ InitCommandBuffer
    /\ InitTracking
    /\ InitDescriptorSet
    /\ InitLifetime
    /\ InitHeap
    /\ InitThreads

(* ----------------------------- lifecycle ------------------------------ *)
\* reset without m_objs.clear().
reset_keeps_objs(created) ==
    /\ ~aborted
    /\ attached' = << >>
    /\ m_buffer' = IF created THEN "not_enqueued" ELSE "null"
    /\ Returned("reset", << >>, IF created THEN "ok" ELSE "bad_platform_call",
                << Mtl("commandBuffer", << >>) >>)
    /\ UNCHANGED << encoders, m_objs, bindings, m_global_states >>

\* CommandBuffer::reset; `created` is whether queue->commandBuffer() returned a buffer.
reset(created) ==
    /\ ~aborted
    /\ m_objs' = << >>
    /\ attached' = << >>
    /\ m_buffer' = IF created THEN "not_enqueued" ELSE "null"
    /\ Returned("reset", << >>, IF created THEN "ok" ELSE "bad_platform_call",
                << Mtl("commandBuffer", << >>) >>)
    /\ UNCHANGED << encoders, bindings, m_global_states >>

attach_device_object(obj) ==
    /\ ~aborted
    /\ Len(m_objs) < MaxObjs
    /\ m_objs' = Append(m_objs, obj)
    /\ attached' = Append(attached, obj)
    /\ Returned("attach_device_object", << obj >>, "ok", << >>)
    /\ UNCHANGED << m_buffer, encoders, bindings, m_global_states >>

\* CommandBuffer::wait: waitUntilCompleted returns once the GPU has finished; a
\* message to a nil command buffer returns at once.
wait ==
    /\ ~aborted
    /\ m_buffer \in {"null", "completed", "error"}
    /\ Returned("wait", << >>, "ok", << Mtl("waitUntilCompleted", << >>) >>)
    /\ UNCHANGED << fields, attached >>

\* try_wait that reports only a successful completion.
try_wait_completed_only ==
    /\ ~aborted
    /\ Returned("try_wait", << >>,
                IF m_buffer = "completed" THEN "true" ELSE "false",
                << Mtl("status", << >>) >>)
    /\ UNCHANGED << fields, attached >>

\* CommandBuffer::try_wait: reads the status, true for Completed and for Error.
try_wait ==
    /\ ~aborted
    /\ Returned("try_wait", << >>,
                IF m_buffer \in {"completed", "error"} THEN "true" ELSE "false",
                << Mtl("status", << >>) >>)
    /\ UNCHANGED << fields, attached >>

\* ICommandBuffer::submit commits the recorded commands to the queue.
submit ==
    /\ ~aborted
    /\ m_buffer = "not_enqueued"
    /\ m_buffer' = "committed"
    /\ Returned("submit", << >>, "ok", << Mtl("commit", << >>) >>)
    /\ UNCHANGED << encoders, m_objs, bindings, m_global_states, attached >>

\* The GPU finishes a committed command buffer, successfully or with an error.
gpu_complete(status) ==
    /\ ~aborted
    /\ m_buffer = "committed"
    /\ m_buffer' = status
    /\ Returned("gpu_complete", << status >>, "ok", << >>)
    /\ UNCHANGED << encoders, m_objs, bindings, m_global_states, attached >>

begin_event(event_name) ==
    /\ ~aborted
    /\ Returned("begin_event", << event_name >>, "ok",
                << Mtl("pushDebugGroup", << event_name >>) >>)
    /\ UNCHANGED << fields, attached >>

end_event ==
    /\ ~aborted
    /\ Returned("end_event", << >>, "ok", << Mtl("popDebugGroup", << >>) >>)
    /\ UNCHANGED << fields, attached >>

(* ---------------------------- render pass ----------------------------- *)
NoAttachment == [texture |-> NULL, mip_slice |-> 0, array_slice |-> 0,
                 load_op |-> "dont_care", store_op |-> "dont_care",
                 clear_value |-> << 0, 0, 0, 0 >>]
ColorAttachment(tex, load_op, store_op) ==
    [texture |-> tex, mip_slice |-> 0, array_slice |-> 0,
     load_op |-> load_op, store_op |-> store_op, clear_value |-> << 0, 0, 0, 1 >>]
DepthStencilAttachment(tex, depth_load_op, depth_store_op, stencil_load_op, stencil_store_op) ==
    [texture |-> tex, mip_slice |-> 0, array_slice |-> 0,
     depth_load_op |-> depth_load_op, depth_store_op |-> depth_store_op,
     stencil_load_op |-> stencil_load_op, stencil_store_op |-> stencil_store_op,
     depth_clear_value |-> 1, stencil_clear_value |-> 0]
NoDepthStencil == DepthStencilAttachment(NULL, "dont_care", "dont_care", "dont_care", "dont_care")
\* color_attachments[i] and resolve_attachments[i] are element i + 1 of the sequences.
RenderPassDesc(colors, resolves, depth_stencil, array_size) ==
    [color_attachments |->
        [i \in 1..MaxColorAttachments |-> IF i <= Len(colors) THEN colors[i] ELSE NoAttachment],
     resolve_attachments |->
        [i \in 1..MaxColorAttachments |-> IF i <= Len(resolves) THEN resolves[i] ELSE NoAttachment],
     depth_stencil_attachment |-> depth_stencil,
     array_size |-> array_size,
     sample_count |-> 1]
RenderPassDescs ==
    { RenderPassDesc(<< ColorAttachment("tex_a", "clear", "store") >>, << >>, NoDepthStencil, 1),
      RenderPassDesc(<< ColorAttachment("tex_a", "clear", "store"),
                        ColorAttachment("tex_b", "load", "dont_care") >>,
                     << [ColorAttachment("tex_b", "dont_care", "dont_care") EXCEPT !.mip_slice = 1, !.array_slice = 1] >>,
                     DepthStencilAttachment("tex_b", "clear", "store", "load", "dont_care"), 2),
      RenderPassDesc(<< NoAttachment, ColorAttachment("tex_a", "clear", "store") >>,
                     << >>, NoDepthStencil, 1),
      RenderPassDesc(<< ColorAttachment("tex_a", "clear", "store"), NoAttachment,
                        ColorAttachment("tex_b", "clear", "store") >>,
                     << >>, NoDepthStencil, 1),
      RenderPassDesc(<< >>, << >>,
                     DepthStencilAttachment("tex_a", "clear", "dont_care", "clear", "store"), 1) }

encode_load_action(op) ==
    CASE op = "load" -> "LoadActionLoad"
      [] op = "clear" -> "LoadActionClear"
      [] OTHER -> "LoadActionDontCare"
encode_store_action(op, resolve) ==
    IF resolve
    THEN (IF op = "store" THEN "StoreActionStoreAndMultisampleResolve"
                          ELSE "StoreActionMultisampleResolve")
    ELSE (IF op = "store" THEN "StoreActionStore" ELSE "StoreActionDontCare")

\* The descriptor of a color attachment whose resolve target is never looked at.
ColorAttachmentDescriptor_no_resolve(src, resolve_src) ==
    [texture |-> src.texture, level |-> src.mip_slice, slice |-> src.array_slice,
     loadAction |-> encode_load_action(src.load_op),
     storeAction |-> encode_store_action(src.store_op, FALSE),
     clearColor |-> src.clear_value,
     resolveTexture |-> NULL, resolveLevel |-> 0, resolveSlice |-> 0]

\* One iteration of the color attachment loop: the descriptor of attachment i.
ColorAttachmentDescriptor(src, resolve_src) ==
    [texture |-> src.texture, level |-> src.mip_slice, slice |-> src.array_slice,
     loadAction |-> encode_load_action(src.load_op),
     storeAction |-> encode_store_action(src.store_op, resolve_src.texture # NULL),
     clearColor |-> src.clear_value,
     resolveTexture |-> resolve_src.texture,
     resolveLevel |-> IF resolve_src.texture # NULL THEN resolve_src.mip_slice ELSE 0,
     resolveSlice |-> IF resolve_src.texture # NULL THEN resolve_src.array_slice ELSE 0]

\* the loop passing over an empty slot (continue in place of break)
RECURSIVE ColorAttachmentLoop_continue(_, _, _)
ColorAttachmentLoop_continue(desc, i, d) ==
    IF i >= MaxColorAttachments
    THEN d
    ELSE IF desc.color_attachments[i + 1].texture = NULL
         THEN ColorAttachmentLoop_continue(desc, i + 1, d)
         ELSE ColorAttachmentLoop_continue(desc, i + 1,
                  [d EXCEPT !.colorAttachments =
                                Append(@, ColorAttachmentDescriptor(desc.color_attachments[i + 1], desc.resolve_attachments[i + 1])),
                            !.renderTargetWidth = TextureWidth[desc.color_attachments[i + 1].texture],
                            !.renderTargetHeight = TextureHeight[desc.color_attachments[i + 1].texture]])

\* for(u32 i = 0; i < 8; ++i) { if(!src.texture) break; ... }, from index i on.
RECURSIVE ColorAttachmentLoop(_, _, _)
ColorAttachmentLoop(desc, i, d) ==
    IF i >= MaxColorAttachments \/ desc.color_attachments[i + 1].texture = NULL
    THEN d
    ELSE LET src == desc.color_attachments[i + 1]
             resolve_src == desc.resolve_attachments[i + 1]
         IN  ColorAttachmentLoop(desc, i + 1,
                 [d EXCEPT !.colorAttachments =
                               Append(@, ColorAttachmentDescriptor(src, resolve_src)),
                           !.renderTargetWidth = TextureWidth[src.texture],
                           !.renderTargetHeight = TextureHeight[src.texture]])

\* The MTL::RenderPassDescriptor begin_render_pass builds from desc.
RenderPassDescriptor(desc) ==
    LET colors == ColorAttachmentLoop(desc, 0,
                      [colorAttachments |-> << >>, depthAttachment |-> NULL,
                       stencilAttachment |-> NULL, renderTargetWidth |-> 0,
                       renderTargetHeight |-> 0,
                       renderTargetArrayLength |->
                           IF desc.array_size > 1 THEN desc.array_size ELSE 0,
                       defaultRasterSampleCount |-> desc.sample_count])
        src == desc.depth_stencil_attachment
    IN  IF src.texture # NULL
        THEN [colors EXCEPT
                 !.depthAttachment =
                     [texture |-> src.texture, level |-> src.mip_slice,
                      slice |-> src.array_slice,
                      loadAction |-> encode_load_action(src.depth_load_op),
                      storeAction |-> encode_store_action(src.depth_store_op, FALSE),
                      clearDepth |-> src.depth_clear_value],
                 !.stencilAttachment =
                     [texture |-> src.texture, level |-> src.mip_slice,
                      slice |-> src.array_slice,
                      loadAction |-> encode_load_action(src.stencil_load_op),
                      storeAction |-> encode_store_action(src.stencil_store_op, FALSE),
                      clearStencil |-> src.stencil_clear_value],
                 !.renderTargetWidth = TextureWidth[src.texture],
                 !.renderTargetHeight = TextureHeight[src.texture]]
        ELSE colors

begin_render_pass(desc) ==
    /\ ~aborted
    /\ IF ~(~m_render /\ ~m_compute /\ ~m_blit)
       THEN assert_fail("begin_render_pass", << desc >>)
       ELSE /\ m_render' = NewEncoder
            /\ Returned("begin_render_pass", << desc >>, "ok",
                        << Mtl("renderCommandEncoder", << RenderPassDescriptor(desc) >>) >>)
            /\ UNCHANGED << m_buffer, m_compute, m_blit, m_objs, bindings,
                            m_global_states, attached >>

\* end_render_pass without m_render.reset().
end_render_pass_keeps_encoder ==
    /\ ~aborted
    /\ IF ~assert_graphcis_context
       THEN assert_fail("end_render_pass", << >>)
       ELSE /\ Returned("end_render_pass", << >>, "ok", << Mtl("endEncoding", << "render" >>) >>)
            /\ UNCHANGED << fields, attached >>

end_render_pass ==
    /\ ~aborted
    /\ IF ~assert_graphcis_context
       THEN assert_fail("end_render_pass", << >>)
       ELSE /\ m_render' = FALSE
            /\ Returned("end_render_pass", << >>, "ok", << Mtl("endEncoding", << "render" >>) >>)
            /\ UNCHANGED << m_buffer, m_compute, m_blit, m_objs, bindings,
                            m_global_states, attached >>

(* ------------------------ render state and draws ---------------------- *)
\* sample arguments
IndexBufferViews == [buffer : {"buf_a"}, offset : {0}, size : {64}, format : IndexFormats]
DescriptorSetIndices == {0, 14, 15, 16}
DescriptorSetSpans == { << "set_a" >>, << "set_a", "set_b" >> }
Viewport == [top_left_x |-> 0, top_left_y |-> 0, width |-> 8, height |-> 8,
             min_depth |-> 0, max_depth |-> 1]
Mip0 == [mip_slice |-> 0, array_slice |-> 0]
Origin == << 0, 0, 0 >>
ScissorRect == [offset_x |-> 0, offset_y |-> 0, width |-> 8, height |-> 8]
RenderPipelineStates == {"pso_triangle"}
ComputePipelineStates == {"pso_cs_8x8"}
DescriptorSets == {"set_a", "set_b"}
\* RenderPipelineState::m_primitive_type, ComputePipelineState::m_num_threads_per_group
PrimitiveType == [p \in RenderPipelineStates |-> "PrimitiveTypeTriangle"]
NumThreadsPerGroup == [p \in ComputePipelineStates |-> << 8, 8, 1 >>]

\* A render-pass call that checks the context and then only talks to the encoder.
RenderCommand(op, args, calls) ==
    /\ ~aborted
    /\ IF ~assert_graphcis_context
       THEN assert_fail(op, args)
       ELSE /\ Returned(op, args, "ok", calls)
            /\ UNCHANGED << fields, attached >>

set_graphics_pipeline_layout(pipeline_layout) ==
    RenderCommand("set_graphics_pipeline_layout", << pipeline_layout >>, << >>)

set_graphics_pipeline_state(pso) ==
    /\ ~aborted
    /\ IF ~assert_graphcis_context
       THEN assert_fail("set_graphics_pipeline_state", << pso >>)
       ELSE /\ m_primitive_type' = PrimitiveType[pso]
            /\ Returned("set_graphics_pipeline_state", << pso >>, "ok",
                        << Mtl("setRenderPipelineState", << pso >>),
                           Mtl("setCullMode", << pso >>),
                           Mtl("setDepthStencilState", << pso >>) >>)
            /\ UNCHANGED << m_buffer, encoders, m_objs, m_index_buffer_view,
                            m_num_threads_per_group, m_global_states, attached >>

\* views: a sequence of [buffer, offset]
set_vertex_buffers(start_slot, views) ==
    RenderCommand("set_vertex_buffers", << start_slot, views >>,
        << Mtl("setVertexBuffers",
               << [i \in 1..Len(views) |-> views[i].buffer],
                  [i \in 1..Len(views) |-> views[i].offset],
                  << "VERTEX_BUFFER_SLOT_OFFSET", start_slot >>, Len(views) >>) >>)

set_index_buffer(view) ==
    /\ ~aborted
    /\ IF ~assert_graphcis_context
       THEN assert_fail("set_index_buffer", << view >>)
       ELSE /\ m_index_buffer_view' = view
            /\ Returned("set_index_buffer", << view >>, "ok", << >>)
            /\ UNCHANGED << m_buffer, encoders, m_objs, m_primitive_type,
                            m_num_threads_per_group, m_global_states, attached >>

set_graphics_descriptor_set(index, descriptor_set) ==
    /\ ~aborted
    /\ IF ~(index < MaxDescriptorSets) \/ ~assert_graphcis_context
       THEN assert_fail("set_graphics_descriptor_set", << index, descriptor_set >>)
       ELSE /\ Returned("set_graphics_descriptor_set", << index, descriptor_set >>, "ok",
                        << Mtl("setVertexBuffer", << descriptor_set, 0, index >>),
                           Mtl("setFragmentBuffer", << descriptor_set, 0, index >>) >>)
            /\ UNCHANGED << fields, attached >>

set_graphics_descriptor_sets(start_index, descriptor_sets) ==
    /\ ~aborted
    /\ IF ~(start_index + Len(descriptor_sets) < MaxDescriptorSets) \/ ~assert_graphcis_context
       THEN assert_fail("set_graphics_descriptor_sets", << start_index, descriptor_sets >>)
       ELSE /\ Returned("set_graphics_descriptor_sets", << start_index, descriptor_sets >>, "ok",
                        << Mtl("setVertexBuffers",
                               << descriptor_sets, [i \in 1..Len(descriptor_sets) |-> 0],
                                  start_index, Len(descriptor_sets) >>),
                           Mtl("setFragmentBuffers",
                               << descriptor_sets, [i \in 1..Len(descriptor_sets) |-> 0],
                                  start_index, Len(descriptor_sets) >>) >>)
            /\ UNCHANGED << fields, attached >>

set_viewport(viewport) ==
    RenderCommand("set_viewport", << viewport >>, << Mtl("setViewport", << viewport >>) >>)

set_viewports(viewports) ==
    RenderCommand("set_viewports", << viewports >>,
                  << Mtl("setViewports", << viewports, Len(viewports) >>) >>)

set_scissor_rect(rect) ==
    RenderCommand("set_scissor_rect", << rect >>, << Mtl("setScissorRect", << rect >>) >>)

set_scissor_rects(rects) ==
    RenderCommand("set_scissor_rects", << rects >>,
                  << Mtl("setScissorRects", << rects, Len(rects) >>) >>)

set_blend_factor(blend_factor) ==
    RenderCommand("set_blend_factor", << blend_factor >>,
                  << Mtl("setBlendColor", blend_factor) >>)

set_stencil_ref(stencil_ref) ==
    RenderCommand("set_stencil_ref", << stencil_ref >>,
                  << Mtl("setStencilReferenceValue", << stencil_ref >>) >>)

\* draw without assert_graphcis_context().
draw_unchecked(vertex_count, start_vertex_location) ==
    /\ ~aborted
    /\ Returned("draw", << vertex_count, start_vertex_location >>, "ok",
        << Mtl("drawPrimitives", << m_primitive_type, start_vertex_location, vertex_count >>) >>)
    /\ UNCHANGED << fields, attached >>

draw(vertex_count, start_vertex_location) ==
    RenderCommand("draw", << vertex_count, start_vertex_location >>,
        << Mtl("drawPrimitives", << m_primitive_type, start_vertex_location, vertex_count >>) >>)

draw_instanced(vertex_count_per_instance, instance_count, start_vertex_location, start_instance_location) ==
    RenderCommand("draw_instanced",
        << vertex_count_per_instance, instance_count, start_vertex_location,
           start_instance_location >>,
        << Mtl("drawPrimitives",
               << m_primitive_type, start_vertex_location, vertex_count_per_instance,
                  instance_count, start_instance_location >>) >>)

(* ---------------------------- indexed draws --------------------------- *)
\* cast_object<T>(object): the object when it is a T, nullptr otherwise.
cast_object(T, object) == IF object \in T THEN object ELSE NULL

encode_index_type(format) ==
    IF format = "r16_uint" THEN "IndexTypeUInt16" ELSE "IndexTypeUInt32"

\* u32 x *= k: the product modulo 2^32, on the halves << high, low >>.
U32Mul(x, k) ==
    LET low == x[2] * k
        high == x[1] * k + (low \div W16)
    IN  << high % W16, low % W16 >>
\* (NS::UInteger)x: zero extension of a u32 to 64 bits, as << bits 32.., high, low >>.
ToUInteger(x) == << 0, x[1], x[2] >>

\* An access through a null m_index_buffer_view.buffer is undefined: the process
\* crashes, or the draw goes on with no index buffer.
Crash(op, args) ==
    /\ aborted' = TRUE
    /\ last_call' = Call(op, args, "crash")
    /\ backend' = << >>
    /\ UNCHANGED << fields, attached >>

\* The common body of draw_indexed and draw_indexed_instanced.
IndexedDraw(op, args, index_count, start_index_location, instance_count, base_vertex_location, start_instance_location) ==
    /\ ~aborted
    /\ IF ~assert_graphcis_context
       THEN assert_fail(op, args)
       ELSE IF m_index_buffer_view.buffer = NULL
       THEN \/ Crash(op, args)
            \/ \E type \in {"IndexTypeUInt16", "IndexTypeUInt32"} :
                  /\ Returned(op, args, "ok",
                        << Mtl("drawIndexedPrimitives",
                               << m_primitive_type, index_count, type, NULL,
                                  ToUInteger(U32Mul(start_index_location,
                                      IF type = "IndexTypeUInt16" THEN 2 ELSE 4)),
                                  instance_count, base_vertex_location,
                                  start_instance_location >>) >>)
                  /\ UNCHANGED << fields, attached >>
       ELSE LET buffer == cast_object(Buffers, m_index_buffer_view.buffer)
                type == encode_index_type(m_index_buffer_view.format)
                offset == U32Mul(start_index_location,
                                 IF type = "IndexTypeUInt16" THEN 2 ELSE 4)
            IN  /\ Returned(op, args, "ok",
                        << Mtl("drawIndexedPrimitives",
                               << m_primitive_type, index_count, type, buffer,
                                  ToUInteger(offset), instance_count,
                                  base_vertex_location, start_instance_location >>) >>)
                /\ UNCHANGED << fields, attached >>

draw_indexed(index_count, start_index_location, base_vertex_location) ==
    IndexedDraw("draw_indexed",
                << index_count, start_index_location, base_vertex_location >>,
                index_count, start_index_location, 1, base_vertex_location, 0)

draw_indexed_instanced(index_count_per_instance, instance_count, start_index_location, base_vertex_location, start_instance_location) ==
    IndexedDraw("draw_indexed_instanced",
                << index_count_per_instance, instance_count, start_index_location,
                   base_vertex_location, start_instance_location >>,
                index_count_per_instance, start_index_location, instance_count,
                base_vertex_location, start_instance_location)

(* ---------------------------- compute pass ---------------------------- *)
\* begin_compute_pass without its lucheck_msg.
begin_compute_pass_unchecked ==
    /\ ~aborted
    /\ m_compute' = NewEncoder
    /\ Returned("begin_compute_pass", << >>, "ok",
                << Mtl("computeCommandEncoder", << "DispatchTypeConcurrent" >>) >>)
    /\ UNCHANGED << m_buffer, m_render, m_blit, m_objs, bindings, m_global_states, attached >>

begin_compute_pass ==
    /\ ~aborted
    /\ IF ~(~m_render /\ ~m_compute /\ ~m_blit)
       THEN assert_fail("begin_compute_pass", << >>)
       ELSE /\ m_compute' = NewEncoder
            /\ Returned("begin_compute_pass", << >>, "ok",
                        << Mtl("computeCommandEncoder", << "DispatchTypeConcurrent" >>) >>)
            /\ UNCHANGED << m_buffer, m_render, m_blit, m_objs, bindings,
                            m_global_states, attached >>

\* A compute-pass call that checks the context and then only talks to the encoder.
ComputeCommand(op, args, calls) ==
    /\ ~aborted
    /\ IF ~assert_compute_context
       THEN assert_fail(op, args)
       ELSE /\ Returned(op, args, "ok", calls)
            /\ UNCHANGED << fields, attached >>

set_compute_pipeline_layout(pipeline_layout) ==
    ComputeCommand("set_compute_pipeline_layout", << pipeline_layout >>, << >>)

set_compute_pipeline_state(pso) ==
    /\ ~aborted
    /\ IF ~assert_compute_context
       THEN assert_fail("set_compute_pipeline_state", << pso >>)
       ELSE /\ m_num_threads_per_group' = NumThreadsPerGroup[pso]
            /\ Returned("set_compute_pipeline_state", << pso >>, "ok",
                        << Mtl("setComputePipelineState", << pso >>) >>)
            /\ UNCHANGED << m_buffer, encoders, m_objs, m_index_buffer_view,
                            m_primitive_type, m_global_states, attached >>

set_compute_descriptor_set(index, descriptor_set) ==
    ComputeCommand("set_compute_descriptor_set", << index, descriptor_set >>,
                   << Mtl("setBuffer", << descriptor_set, 0, index >>) >>)

dispatch(thread_group_count_x, thread_group_count_y, thread_group_count_z) ==
    ComputeCommand("dispatch",
        << thread_group_count_x, thread_group_count_y, thread_group_count_z >>,
        << Mtl("dispatchThreadgroups",
               << << thread_group_count_x, thread_group_count_y, thread_group_count_z >>,
                  m_num_threads_per_group >>) >>)

end_compute_pass ==
    /\ ~aborted
    /\ IF ~assert_compute_context
       THEN assert_fail("end_compute_pass", << >>)
       ELSE /\ m_compute' = FALSE
            /\ Returned("end_compute_pass", << >>, "ok",
                        << Mtl("endEncoding", << "compute" >>) >>)
            /\ UNCHANGED << m_buffer, m_render, m_blit, m_objs, bindings,
                            m_global_states, attached >>

(* ------------------------------ copy pass ----------------------------- *)
min(a, b) == IF a < b THEN a ELSE b

begin_copy_pass ==
    /\ ~aborted
    /\ IF ~(~m_render /\ ~m_compute /\ ~m_blit)
       THEN assert_fail("begin_copy_pass", << >>)
       ELSE /\ m_blit' = NewEncoder
            /\ Returned("begin_copy_pass", << >>, "ok", << Mtl("blitCommandEncoder", << >>) >>)
            /\ UNCHANGED << m_buffer, m_render, m_compute, m_objs, bindings,
                            m_global_states, attached >>

\* A copy-pass call that checks the context and then only talks to the encoder.
CopyCommand(op, args, calls) ==
    /\ ~aborted
    /\ IF ~assert_copy_context
       THEN assert_fail(op, args)
       ELSE /\ Returned(op, args, "ok", calls)
            /\ UNCHANGED << fields, attached >>

\* copy_resource copying dst.size bytes instead of the smaller size.
CopyResourceCalls_dst_size(dst, src) ==
    IF cast_object(Buffers, dst) # NULL /\ cast_object(Buffers, src) # NULL
    THEN << Mtl("copyFromBuffer", << src, 0, dst, 0, BufferSize[dst] >>) >>
    ELSE IF cast_object(Textures, dst) # NULL /\ cast_object(Textures, src) # NULL
    THEN << Mtl("copyFromTexture", << src, dst >>) >>
    ELSE << >>

\* The backend calls of copy_resource(dst, src).
CopyResourceCalls(dst, src) ==
    IF cast_object(Buffers, dst) # NULL /\ cast_object(Buffers, src) # NULL
    THEN << Mtl("copyFromBuffer", << src, 0, dst, 0, min(BufferSize[dst], BufferSize[src]) >>) >>
    ELSE IF cast_object(Textures, dst) # NULL /\ cast_object(Textures, src) # NULL
    THEN << Mtl("copyFromTexture", << src, dst >>) >>
    ELSE << >>

copy_resource(dst, src) ==
    CopyCommand("copy_resource", << dst, src >>, CopyResourceCalls(dst, src))

copy_buffer(dst, dst_offset, src, src_offset, copy_bytes) ==
    CopyCommand("copy_buffer", << dst, dst_offset, src, src_offset, copy_bytes >>,
                << Mtl("copyFromBuffer", << src, src_offset, dst, dst_offset, copy_bytes >>) >>)

\* dst_origin, src_origin: << x, y, z >>; copy_size: << width, height, depth >>;
\* a subresource is [mip_slice, array_slice]
copy_texture(dst, dst_subresource, dst_origin, src, src_subresource, src_origin, copy_size) ==
    CopyCommand("copy_texture",
        << dst, dst_subresource, dst_origin, src, src_subresource, src_origin, copy_size >>,
        << Mtl("copyFromTexture",
               << src, src_subresource.array_slice, src_subresource.mip_slice, src_origin,
                  copy_size, dst, dst_subresource.array_slice, dst_subresource.mip_slice,
                  dst_origin >>) >>)

copy_buffer_to_texture(dst, dst_subresource, dst_origin, src, src_offset, src_row_pitch, src_slice_pitch, copy_size) ==
    CopyCommand("copy_buffer_to_texture",
        << dst, dst_subresource, dst_origin, src, src_offset, src_row_pitch,
           src_slice_pitch, copy_size >>,
        << Mtl("copyFromBuffer",
               << src, src_offset, src_row_pitch, src_slice_pitch, copy_size, dst,
                  dst_subresource.array_slice, dst_subresource.mip_slice, dst_origin >>) >>)

copy_texture_to_buffer(dst, dst_offset, dst_row_pitch, dst_slice_pitch, src, src_subresource, src_origin, copy_size) ==
    CopyCommand("copy_texture_to_buffer",
        << dst, dst_offset, dst_row_pitch, dst_slice_pitch, src, src_subresource,
           src_origin, copy_size >>,
        << Mtl("copyFromTexture",
               << src, src_subresource.array_slice, src_subresource.mip_slice, src_origin,
                  copy_size, dst, dst_offset, dst_row_pitch, dst_slice_pitch >>) >>)

end_copy_pass ==
    /\ ~aborted
    /\ IF ~assert_copy_context
       THEN assert_fail("end_copy_pass", << >>)
       ELSE /\ m_blit' = FALSE
            /\ Returned("end_copy_pass", << >>, "ok", << Mtl("endEncoding", << "blit" >>) >>)
            /\ UNCHANGED << m_buffer, m_render, m_compute, m_objs, bindings,
                            m_global_states, attached >>

(* ------------------------------ barriers ------------------------------ *)
\* sample barriers, all with before = automatic
BufferBarriers ==
    { << >>,
      << [buffer |-> "buf_a", before |-> "automatic", after |-> "copy_dest",
          flags |-> "none"] >> }
TextureBarrier(texture, mip, after) ==
    [texture |-> texture, subresource |-> [mip_slice |-> mip, array_slice |-> 0],
     before |-> "automatic", after |-> after, flags |-> "none"]
TextureBarriers ==
    { << >> } \cup
    { << TextureBarrier(t, s, after) >> : t \in Textures, s \in Subresources,
                                          after \in TextureStates } \cup
    { << TextureBarrier(t, s, "shader_read_cs"), TextureBarrier(t, s + 1, "shader_write_cs") >> :
         t \in Textures, s \in 0..(NumMips - 2) }

\* resource_barrier ending the open compute encoder to place the barrier.
resource_barrier_ends_encoder(buffer_barriers, texture_barriers) ==
    /\ ~aborted
    /\ m_compute' = FALSE
    /\ Returned("resource_barrier", << buffer_barriers, texture_barriers >>, "ok", << >>)
    /\ UNCHANGED << m_buffer, m_render, m_blit, m_objs, bindings, m_global_states, attached >>

\* CommandBuffer::resource_barrier: the body is commented out; nothing is done.
resource_barrier(buffer_barriers, texture_barriers) ==
    /\ ~aborted
    /\ Returned("resource_barrier", << buffer_barriers, texture_barriers >>, "ok", << >>)
    /\ UNCHANGED << fields, attached >>

write_timestamp(heap, index) ==
    /\ ~aborted
    /\ Returned("write_timestamp", << heap, index >>, "ok", << >>)
    /\ UNCHANGED << fields, attached >>

Next ==
    \/ \E created \in BOOLEAN : reset(created) /\ UNCHANGED other_objects
    \/ \E obj \in DeviceObjects : attach_device_object(obj) /\ UNCHANGED other_objects
    \/ wait /\ UNCHANGED other_objects
    \/ try_wait /\ UNCHANGED other_objects
    \/ submit /\ UNCHANGED other_objects
    \/ \E status \in {"completed", "error"} : gpu_complete(status) /\ UNCHANGED other_objects
    \/ begin_event("event") /\ UNCHANGED other_objects
    \/ end_event /\ UNCHANGED other_objects
    \/ \E desc \in RenderPassDescs : begin_render_pass(desc) /\ UNCHANGED other_objects
    \/ end_render_pass /\ UNCHANGED other_objects
    \/ set_graphics_pipeline_layout("layout") /\ UNCHANGED other_objects
    \/ \E pso \in RenderPipelineStates : set_graphics_pipeline_state(pso) /\ UNCHANGED other_objects
    \/ set_vertex_buffers(0, << [buffer |-> "buf_a", offset |-> 0] >>) /\ UNCHANGED other_objects
    \/ \E view \in IndexBufferViews : set_index_buffer(view) /\ UNCHANGED other_objects
    \/ \E index \in DescriptorSetIndices, set \in DescriptorSets :
           set_graphics_descriptor_set(index, set) /\ UNCHANGED other_objects
    \/ \E start_index \in DescriptorSetIndices, sets \in DescriptorSetSpans :
           set_graphics_descriptor_sets(start_index, sets) /\ UNCHANGED other_objects
    \/ set_viewport(Viewport) /\ UNCHANGED other_objects
    \/ set_viewports(<< Viewport >>) /\ UNCHANGED other_objects
    \/ set_scissor_rect(ScissorRect) /\ UNCHANGED other_objects
    \/ set_scissor_rects(<< ScissorRect >>) /\ UNCHANGED other_objects
    \/ set_blend_factor(<< 1, 1, 1, 1 >>) /\ UNCHANGED other_objects
    \/ set_stencil_ref(1) /\ UNCHANGED other_objects
    \/ draw(3, 0) /\ UNCHANGED other_objects
    \/ draw_instanced(3, 2, 0, 0) /\ UNCHANGED other_objects
    \/ \E start \in StartIndexSamples : draw_indexed(3, start, 0) /\ UNCHANGED other_objects
    \/ \E start \in StartIndexSamples : draw_indexed_instanced(3, 2, start, 0, 0) /\ UNCHANGED other_objects
    \/ begin_compute_pass /\ UNCHANGED other_objects
    \/ set_compute_pipeline_layout("layout") /\ UNCHANGED other_objects
    \/ \E pso \in ComputePipelineStates : set_compute_pipeline_state(pso) /\ UNCHANGED other_objects
    \/ \E set \in DescriptorSets : set_compute_descriptor_set(0, set) /\ UNCHANGED other_objects
    \/ dispatch(1, 1, 1) /\ UNCHANGED other_objects
    \/ end_compute_pass /\ UNCHANGED other_objects
    \/ begin_copy_pass /\ UNCHANGED other_objects
    \/ \E dst \in Resources, src \in Resources : copy_resource(dst, src) /\ UNCHANGED other_objects
    \/ copy_buffer("buf_a", 0, "buf_b", 0, 16) /\ UNCHANGED other_objects
    \/ copy_texture("tex_a", Mip0, Origin, "tex_b", Mip0, Origin, << 4, 2, 1 >>) /\ UNCHANGED other_objects
    \/ copy_buffer_to_texture("tex_a", Mip0, Origin, "buf_a", 0, 16, 32, << 4, 2, 1 >>) /\ UNCHANGED other_objects
    \/ copy_texture_to_buffer("buf_a", 0, 16, 32, "tex_a", Mip0, Origin, << 4, 2, 1 >>) /\ UNCHANGED other_objects
    \/ end_copy_pass /\ UNCHANGED other_objects
    \/ \E buffer_barriers \in BufferBarriers : resource_barrier(buffer_barriers, << >>) /\ UNCHANGED other_objects
    \/ \E texture_barriers \in TextureBarriers : resource_barrier(<< >>, texture_barriers) /\ UNCHANGED other_objects
    \/ write_timestamp("query_heap", 0) /\ UNCHANGED other_objects

Spec == Init /\ [][Next]_vars

(* ------------------- resource state tracking (D3D12) ------------------- *)
D3D12(fn, args) == [fn |-> fn, args |-> args]

\* The subresource of (mip_slice, array_slice) in m_states.
calc_subresource_index(mip_slice, array_slice, mip_levels) == mip_slice + array_slice * mip_levels

\* TextureStateFlag to D3D12_RESOURCE_STATES; PRESENT and COMMON are the same value.
encode_resource_state(state) ==
    CASE state = "shader_read_cs" -> "NON_PIXEL_SHADER_RESOURCE"
      [] state = "shader_write_cs" -> "UNORDERED_ACCESS"
      [] state = "present" -> "COMMON"
      [] OTHER -> "COMMON"

\* One texture barrier: `automatic` resolves to the tracked state of the subresource,
\* a transition is emitted only if before # after, and the tracked state of that
\* subresource becomes `after`.
pack_texture(tracked, barrier) ==
    LET index == 1 + calc_subresource_index(barrier.subresource.mip_slice, barrier.subresource.array_slice, TextureDesc[barrier.texture].mip_levels)
        before == IF barrier.before = "automatic" THEN tracked.states[barrier.texture][index] ELSE encode_resource_state(barrier.before)
        after == encode_resource_state(barrier.after)
    IN  [states |-> [tracked.states EXCEPT ![barrier.texture][index] = after],
         emitted |-> IF before # after
                     THEN Append(tracked.emitted, D3D12("Transition", << barrier.texture, index - 1, before, after >>))
                     ELSE tracked.emitted]

RECURSIVE pack_textures(_, _, _)
pack_textures(tracked, texture_barriers, i) ==
    IF i > Len(texture_barriers)
    THEN tracked
    ELSE pack_textures(pack_texture(tracked, texture_barriers[i]), texture_barriers, i + 1)

\* A call that touches the tracked states only.
Tracked(op, args, status, calls) ==
    /\ last_call' = Call(op, args, status)
    /\ backend' = calls
    /\ UNCHANGED << aborted, fields, attached >>

\* ICommandBuffer::resource_barrier of the D3D12 backend, texture barriers.
d3d12_resource_barrier(texture_barriers) ==
    LET tracked == pack_textures([states |-> m_states, emitted |-> << >>], texture_barriers, 1)
    IN  /\ m_states' = tracked.states
        /\ Tracked("d3d12_resource_barrier", << texture_barriers >>, "ok",
                   IF tracked.emitted = << >> THEN << >>
                   ELSE << D3D12("ResourceBarrier", tracked.emitted) >>)
        /\ UNCHANGED << m_owning_queue_family_index, last_user, set_fields, lifetime, heap_fields, further_objects >>

\* the second barrier naming mip j again
MipBarriers_same_mip(texture, j) ==
    << TextureBarrier(texture, j, "shader_read_cs"), TextureBarrier(texture, j, "shader_write_cs") >>

\* TextureBarrier barriers[] of one iteration of generate_mipmaps
MipBarriers(texture, j) ==
    << TextureBarrier(texture, j, "shader_read_cs"), TextureBarrier(texture, j + 1, "shader_write_cs") >>

\* for (u32 j = 0; j < (u32)(desc.mip_levels - 1); ++j): the barriers of every pass
RECURSIVE MipmapPasses(_, _, _)
MipmapPasses(texture, j, tracked) ==
    IF ~(j < TextureDesc[texture].mip_levels - 1)
    THEN tracked
    ELSE MipmapPasses(texture, j + 1, pack_textures(tracked, MipBarriers(texture, j), 1))

\* TextureAssetUserdata::generate_mipmaps on a D3D12 command buffer.
generate_mipmaps(resource_with_most_detailed_mip) ==
    LET desc == TextureDesc[resource_with_most_detailed_mip]
        tracked == MipmapPasses(resource_with_most_detailed_mip, 0, [states |-> m_states, emitted |-> << >>])
    IN  /\ desc.mip_levels >= 1 /\ desc.depth = 1
        /\ m_states' = IF desc.mip_levels = 1 THEN m_states ELSE tracked.states
        /\ Tracked("generate_mipmaps", << resource_with_most_detailed_mip >>, "ok",
                   IF desc.mip_levels = 1 THEN << >> ELSE tracked.emitted)
        /\ UNCHANGED << m_owning_queue_family_index, last_user, set_fields, lifetime, heap_fields, further_objects >>

NextTrack ==
    \/ \E texture_barriers \in TextureBarriers : d3d12_resource_barrier(texture_barriers)
    \/ \E texture \in Textures : generate_mipmaps(texture)

SpecTrack == Init /\ [][NextTrack]_vars

(* ------------------------- Vulkan queue ownership ---------------------- *)
\* CommandQueue::m_queue_family_index of the queues command buffers record on
QueueFamilies == {"family_0", "family_1"}
VK_QUEUE_FAMILY_IGNORED == "VK_QUEUE_FAMILY_IGNORED"

Vk(fn, args) == [fn |-> fn, args |-> args]

\* The layout a portable texture state is tracked as.
encode_image_layout(state) ==
    CASE state = "shader_read_cs" -> "shader_read_only_optimal"
      [] state = "shader_write_cs" -> "general"
      [] state = "present" -> "present_src"

\* VkBufferMemoryBarrier / VkImageMemoryBarrier without an ownership transfer
BufferMemoryBarrier(buffer) == [buffer |-> buffer, srcQueueFamilyIndex |-> VK_QUEUE_FAMILY_IGNORED, dstQueueFamilyIndex |-> VK_QUEUE_FAMILY_IGNORED]
ImageMemoryBarrier(image, mip, oldLayout, newLayout) == [image |-> image, baseMipLevel |-> mip, oldLayout |-> oldLayout, newLayout |-> newLayout, srcQueueFamilyIndex |-> VK_QUEUE_FAMILY_IGNORED, dstQueueFamilyIndex |-> VK_QUEUE_FAMILY_IGNORED]

\* The commands of one barrier recorded on a queue of family
\* queue_family_index for a resource owned by owner: the barrier alone when the
\* resource has no owner or the same one, else the release on the owning family
\* followed by the matching acquire on the recording family.
QueueBarrier(owner, queue_family_index, barrier) ==
    IF owner = U32_MAX \/ owner = queue_family_index
    THEN << Vk("vkCmdPipelineBarrier", << queue_family_index, barrier >>) >>
    ELSE LET transfer == [barrier EXCEPT !.srcQueueFamilyIndex = owner, !.dstQueueFamilyIndex = queue_family_index]
         IN  << Vk("vkCmdPipelineBarrier", << owner, transfer >>),
                Vk("vkCmdPipelineBarrier", << queue_family_index, transfer >>) >>

\* One buffer barrier: the buffer becomes owned by the recording family.
pack_buffer(tracked, queue_family_index, barrier) ==
    [tracked EXCEPT
        !.buffers[barrier.buffer] = queue_family_index,
        !.users[barrier.buffer] = queue_family_index,
        !.emitted = @ \o QueueBarrier(tracked.buffers[barrier.buffer], queue_family_index, BufferMemoryBarrier(barrier.buffer))]

\* One texture barrier: the subresource takes the layout of the after state and
\* becomes owned by the recording family.
pack_image(tracked, queue_family_index, barrier) ==
    LET mip == barrier.subresource.mip_slice
        global == tracked.images[barrier.texture][mip]
        layout == encode_image_layout(barrier.after)
    IN  [tracked EXCEPT
            !.images[barrier.texture][mip] = [m_image_layout |-> layout, m_owning_queue_family_index |-> queue_family_index],
            !.users[barrier.texture] = queue_family_index,
            !.emitted = @ \o QueueBarrier(global.m_owning_queue_family_index, queue_family_index,
                                          ImageMemoryBarrier(barrier.texture, mip, global.m_image_layout, layout))]

RECURSIVE pack_buffers(_, _, _, _)
pack_buffers(tracked, queue_family_index, buffer_barriers, i) ==
    IF i > Len(buffer_barriers) THEN tracked
    ELSE pack_buffers(pack_buffer(tracked, queue_family_index, buffer_barriers[i]), queue_family_index, buffer_barriers, i + 1)

RECURSIVE pack_images(_, _, _, _)
pack_images(tracked, queue_family_index, texture_barriers, i) ==
    IF i > Len(texture_barriers) THEN tracked
    ELSE pack_images(pack_image(tracked, queue_family_index, texture_barriers[i]), queue_family_index, texture_barriers, i + 1)

\* ICommandBuffer::resource_barrier of the Vulkan backend, recorded on a queue
\* of family queue_family_index.
vk_resource_barrier(queue_family_index, buffer_barriers, texture_barriers) ==
    /\ ~aborted
    /\ \E tracked \in { pack_images(pack_buffers([buffers |-> m_owning_queue_family_index, images |-> m_global_states,
                                                   users |-> last_user, emitted |-> << >>],
                                                  queue_family_index, buffer_barriers, 1),
                                     queue_family_index, texture_barriers, 1) } :
          /\ m_owning_queue_family_index' = tracked.buffers
          /\ m_global_states' = tracked.images
          /\ last_user' = tracked.users
          /\ last_call' = Call("vk_resource_barrier", << queue_family_index, buffer_barriers, texture_barriers >>, "ok")
          /\ backend' = tracked.emitted
    /\ UNCHANGED << aborted, m_buffer, encoders, m_objs, bindings, attached >>
    /\ UNCHANGED << m_states, set_fields, lifetime, heap_fields, further_objects >>

\* the barriers of one call: one buffer, or one mip of one texture
VkBufferBarriers == { << [buffer |-> b, before |-> "automatic", after |-> "shader_write_cs", flags |-> "none"] >> : b \in Buffers }
VkTextureBarriers == { << TextureBarrier(t, s, "shader_write_cs") >> : t \in Textures, s \in Subresources }

VkBarriers ==
    { [buffer_barriers |-> barriers, texture_barriers |-> << >>] : barriers \in VkBufferBarriers }
       \cup { [buffer_barriers |-> << >>, texture_barriers |-> barriers] : barriers \in VkTextureBarriers }

NextQueue ==
    \E q \in QueueFamilies, barriers \in VkBarriers : vk_resource_barrier(q, barriers.buffer_barriers, barriers.texture_barriers)

SpecQueue == Init /\ [][NextQueue]_vars

(* --------------------------- descriptor sets --------------------------- *)
\* sizeof(u64): the bytes of one argument slot
SizeOfU64 == 8

\* DescriptorSetLayoutBinding
Binding(type, binding_slot, num_descs, shader_visibility_flags) == [type |-> type, binding_slot |-> binding_slot, num_descs |-> num_descs, shader_visibility_flags |-> shader_visibility_flags]

\* DescriptorSetLayoutDesc of the sample layouts; with variable_descriptors the
\* last binding is the variable one and its num_descs is resolved by the set.
DescriptorSetLayoutDescs ==
    [layout_fixed |->
        [bindings |-> << Binding("uniform_buffer_view", 0, 1, {"vertex", "pixel"}),
                         Binding("read_buffer_view", 1, 2, {"pixel"}),
                         Binding("read_write_buffer_view", 2, 1, {"pixel"}),
                         Binding("read_texture_view", 3, 1, {"pixel"}),
                         Binding("sampler", 4, 2, {"pixel"}),
                         Binding("sampler", 5, 1, {"pixel"}) >>,
         flags |-> { }],
     layout_variable |->
        [bindings |-> << Binding("uniform_buffer_view", 0, 1, {"vertex"}),
                         Binding("read_write_texture_view", 1, 2, { }),
                         Binding("read_texture_view", 2, 5, {"pixel"}) >>,
         flags |-> {"variable_descriptors"}]]
LayoutNames == {"layout_fixed", "layout_variable"}

\* The number of descriptors of the first n bindings.
RECURSIVE SumDescs(_, _)
SumDescs(layout_bindings, n) == IF n = 0 THEN 0 ELSE SumDescs(layout_bindings, n - 1) + layout_bindings[n].num_descs

\* DescriptorSetLayout::init: m_argument_offsets[i] is the first argument slot of
\* binding i, m_num_arguments the slots of the fixed bindings.
DescriptorSetLayout(desc) ==
    [m_bindings |-> desc.bindings,
     m_flags |-> desc.flags,
     m_num_arguments |-> SumDescs(desc.bindings, IF "variable_descriptors" \in desc.flags THEN Len(desc.bindings) - 1 ELSE Len(desc.bindings)),
     m_argument_offsets |-> [i \in 0..(Len(desc.bindings) - 1) |-> SumDescs(desc.bindings, i)]]
DescriptorSetLayouts == [name \in LayoutNames |-> DescriptorSetLayout(DescriptorSetLayoutDescs[name])]

\* DescriptorSetDesc(layout, num_variable_descriptors)
DescriptorSetDescs == [layout : LayoutNames, num_variable_descriptors : {0, 5}]

\* One element of DescriptorSet::m_bindings, as init leaves it.
DescriptorSetBinding(src) ==
    IF src.type # "sampler"
    THEN [m_resources |-> [i \in 0..(src.num_descs - 1) |-> NULL],
          m_usages |-> CASE src.type \in {"uniform_buffer_view", "read_buffer_view", "read_texture_view"} -> {"ResourceUsageRead"}
                         [] src.type \in {"read_write_buffer_view", "read_write_texture_view"} -> {"ResourceUsageRead", "ResourceUsageWrite"}
                         [] OTHER -> { },
          m_render_stages |-> (IF "vertex" \in src.shader_visibility_flags THEN {"RenderStageVertex"} ELSE { })
                              \cup (IF "pixel" \in src.shader_visibility_flags THEN {"RenderStageFragment"} ELSE { })]
    ELSE [m_resources |-> << >>, m_usages |-> { }, m_render_stages |-> { }]

\* A call on the descriptor set.
SetCall(op, args, status, calls) ==
    /\ last_call' = Call(op, args, status)
    /\ backend' = calls
    /\ UNCHANGED << aborted, fields, attached >>

\* DescriptorSet::init adding num_variable_descriptors whatever the layout's flags.
DescriptorSet_init_always_variable(desc, created) ==
    LET layout == DescriptorSetLayouts[desc.layout]
        num_arguments == layout.m_num_arguments + desc.num_variable_descriptors
    IN  /\ ~aborted
        /\ m_layout = NULL
        /\ m_layout' = desc.layout
        /\ m_argument_buffer' = IF created THEN NewBuffer(SizeOfU64 * num_arguments, num_arguments) ELSE NullBuffer
        /\ m_bindings' = IF created THEN [i \in 1..Len(layout.m_bindings) |-> DescriptorSetBinding(layout.m_bindings[i])] ELSE << >>
        /\ SetCall("DescriptorSet_init", << desc >>, IF created THEN "ok" ELSE "bad_platform_call", << Mtl("newBuffer", << SizeOfU64 * num_arguments, "upload" >>) >>)
        /\ UNCHANGED << m_samplers, num_samplers, written >>

\* DescriptorSet::init; `created` is whether newBuffer returned a buffer.
DescriptorSet_init(desc, created) ==
    LET layout == DescriptorSetLayouts[desc.layout]
        num_arguments == IF "variable_descriptors" \in layout.m_flags
                         THEN layout.m_num_arguments + desc.num_variable_descriptors
                         ELSE layout.m_num_arguments
    IN  /\ ~aborted
        /\ m_layout = NULL
        /\ m_layout' = desc.layout
        /\ m_argument_buffer' = IF created THEN NewBuffer(SizeOfU64 * num_arguments, num_arguments) ELSE NullBuffer
        /\ m_bindings' = IF created THEN [i \in 1..Len(layout.m_bindings) |-> DescriptorSetBinding(layout.m_bindings[i])] ELSE << >>
        /\ SetCall("DescriptorSet_init", << desc >>, IF created THEN "ok" ELSE "bad_platform_call", << Mtl("newBuffer", << SizeOfU64 * num_arguments, "upload" >>) >>)
        /\ UNCHANGED << m_samplers, num_samplers, written >>

\* sample views and writes
BufferViewDesc(buffer, first_element, element_count, element_size, format) == [buffer |-> buffer, first_element |-> first_element, element_count |-> element_count, element_size |-> element_size, format |-> format]
TextureViewDesc(texture, format, mip_slice, mip_size) == [texture |-> texture, format |-> format, mip_slice |-> mip_slice, mip_size |-> mip_size]
SamplerDesc(anisotropy_enable, max_anisotropy, compare_enable, compare_function) == [anisotropy_enable |-> anisotropy_enable, max_anisotropy |-> max_anisotropy, compare_enable |-> compare_enable, compare_function |-> compare_function]
LinearSampler == SamplerDesc(FALSE, 0, FALSE, "always")
WriteDescriptorSet(binding_slot, first_array_index, type, buffer_views, texture_views, samplers) == [binding_slot |-> binding_slot, first_array_index |-> first_array_index, type |-> type, buffer_views |-> buffer_views, texture_views |-> texture_views, samplers |-> samplers]
UniformWrite == WriteDescriptorSet(0, 0, "uniform_buffer_view", << BufferViewDesc("buf_a", 16, 1, 32, "unknown") >>, << >>, << >>)
UnresolvedWrite == WriteDescriptorSet(9, 0, "uniform_buffer_view", << BufferViewDesc("buf_b", 0, 1, 32, "unknown") >>, << >>, << >>)
SingleWrites ==
    [layout_fixed |->
        { UniformWrite, UnresolvedWrite,
          WriteDescriptorSet(1, 0, "read_buffer_view", << BufferViewDesc("buf_a", 3, 4, 4, "unknown"), BufferViewDesc("buf_b", 3, 4, 0, "r16_uint") >>, << >>, << >>),
          WriteDescriptorSet(1, 1, "read_buffer_view", << BufferViewDesc("buf_b", 3, 4, 0, "rgba8_unorm") >>, << >>, << >>),
          WriteDescriptorSet(2, 0, "read_write_buffer_view", << BufferViewDesc("buf_b", 3, 4, 0, "bc1_rgba_unorm") >>, << >>, << >>),
          WriteDescriptorSet(3, 0, "read_texture_view", << >>, << TextureViewDesc("tex_a", "unknown", 0, 1) >>, << >>),
          WriteDescriptorSet(3, 0, "read_texture_view", << >>, << TextureViewDesc("tex_b", "rgba8_unorm", 1, 1) >>, << >>),
          WriteDescriptorSet(4, 0, "sampler", << >>, << >>, << LinearSampler >>),
          WriteDescriptorSet(4, 1, "sampler", << >>, << >>, << LinearSampler >>),
          WriteDescriptorSet(5, 0, "sampler", << >>, << >>, << SamplerDesc(TRUE, 16, TRUE, "less") >>) },
     layout_variable |->
        { UniformWrite, UnresolvedWrite,
          WriteDescriptorSet(1, 0, "read_write_texture_view", << >>, << TextureViewDesc("tex_a", "unknown", 0, 1), TextureViewDesc("tex_a", "unknown", 1, 1) >>, << >>) }]
TwoViewWrite == WriteDescriptorSet(1, 0, "read_write_texture_view", << >>, << TextureViewDesc("tex_a", "unknown", 0, 1), TextureViewDesc("tex_a", "unknown", 1, 1) >>, << >>)
\* batches with a write that needs a native object, before or after a plain write
NativeBatches ==
    [layout_fixed |->
        { << UniformWrite, WriteDescriptorSet(3, 0, "read_texture_view", << >>, << TextureViewDesc("tex_b", "rgba8_unorm", 1, 1) >>, << >>) >>,
          << WriteDescriptorSet(4, 0, "sampler", << >>, << >>, << LinearSampler >>), UniformWrite >> },
     layout_variable |->
        { << UniformWrite, TwoViewWrite >>, << TwoViewWrite, UniformWrite >> }]
\* the batches passed to update_descriptors: single writes, batches with a write
\* the layout does not resolve, and batches with a write that needs a native object
WriteBatches(layout) ==
    { << write >> : write \in SingleWrites[layout] }
       \cup { << UniformWrite, UnresolvedWrite >>, << UnresolvedWrite, UniformWrite >> }
       \cup NativeBatches[layout]

\* Buffer::m_buffer->gpuAddress() of the sample buffers
gpuAddress == [b \in Buffers |-> IF b = "buf_a" THEN 4096 ELSE 8192]
bits_per_pixel(format) ==
    CASE format = "r16_uint" -> 16
      [] format \in {"r32_uint", "rgba8_unorm"} -> 32
      [] format = "bc1_rgba_unorm" -> 4
      [] OTHER -> 0

\* the scan returning binding 0 when no binding matches
FindBinding_or_first(layout_bindings, binding_slot) ==
    IF \E b \in 1..Len(layout_bindings) : layout_bindings[b].binding_slot = binding_slot
    THEN (CHOOSE b \in 1..Len(layout_bindings) :
             /\ layout_bindings[b].binding_slot = binding_slot
             /\ \A c \in 1..(b - 1) : layout_bindings[c].binding_slot # binding_slot) - 1
    ELSE 0

\* for(; binding_index < m_layout->m_bindings.size(); ++binding_index): the index
\* (from 0) of the first binding with the slot, or the number of bindings.
RECURSIVE FindBindingFrom(_, _, _)
FindBindingFrom(layout_bindings, binding_slot, binding_index) ==
    IF binding_index < Len(layout_bindings) /\ binding_slot # layout_bindings[binding_index + 1].binding_slot
    THEN FindBindingFrom(layout_bindings, binding_slot, binding_index + 1)
    ELSE binding_index
FindBinding(layout_bindings, binding_slot) == FindBindingFrom(layout_bindings, binding_slot, 0)

\* the offset taking element_size as the stride whatever the format
DataOffset_element_size(type, view) ==
    IF type = "uniform_buffer_view" THEN view.first_element ELSE view.element_size * view.first_element

\* u64 data_offset of a buffer view
DataOffset(type, view) ==
    IF type = "uniform_buffer_view"
    THEN view.first_element
    ELSE IF view.format = "unknown"
         THEN view.element_size * view.first_element
         ELSE (bits_per_pixel(view.format) * view.first_element) \div 8

\* Whether the view cannot be expressed by the texture's own handle.
require_view_object(view) == view.format # "unknown" \/ view.mip_slice # 0

\* m_samplers.insert_or_assign(key, sampler)
insert_or_assign(map, key, value) == [k \in (DOMAIN map) \cup {key} |-> IF k = key THEN value ELSE map[k]]

ViewsOf(write) ==
    CASE write.type \in {"uniform_buffer_view", "read_buffer_view", "read_write_buffer_view"} -> write.buffer_views
      [] write.type \in {"read_texture_view", "read_write_texture_view"} -> write.texture_views
      [] OTHER -> write.samplers

\* MTL::SamplerDescriptor of a SamplerDesc
SamplerDescriptor(view) ==
    [maxAnisotropy |-> IF view.anisotropy_enable THEN view.max_anisotropy ELSE 1,
     compareFunction |-> IF view.compare_enable THEN view.compare_function ELSE "CompareFunctionNever",
     supportArgumentBuffers |-> TRUE]

\* One store of update_descriptors: data[slot] of the argument buffer and, for
\* buffers and textures, m_bindings[binding_index].m_resources[record].
NoRecord == -1
Access(binding_index, slot, record) == [binding_index |-> binding_index, slot |-> slot, record |-> record]

\* The store lands outside the argument buffer or outside the vector of records:
\* with no bounds check that is a write to memory the set does not own.
OutsideMemory(contents, set_bindings, access) ==
    \/ access.slot \notin DOMAIN contents
    \/ access.record # NoRecord /\ access.record \notin DOMAIN set_bindings[access.binding_index + 1].m_resources

\* The body of one iteration of the loop over a write's views; st is the state of
\* the set and of the call so far, created says which native objects get created.
WriteView(st, write, binding_index, argument_offset, i, created) ==
    LET view == ViewsOf(write)[i + 1]
    IN  CASE write.type \in {"uniform_buffer_view", "read_buffer_view", "read_write_buffer_view"} ->
               [st EXCEPT !.contents[argument_offset + i] = Argument("address", view.buffer, gpuAddress[view.buffer] + DataOffset(write.type, view)),
                          !.m_bindings[binding_index + 1].m_resources[write.first_array_index + i] = view.buffer,
                          !.written = @ \cup {Access(binding_index, argument_offset + i, write.first_array_index + i)}]
          [] write.type \in {"read_texture_view", "read_write_texture_view"} ->
               IF require_view_object(view) /\ ~created.view
               THEN [st EXCEPT !.status = "bad_platform_call"]
               ELSE [st EXCEPT !.contents[argument_offset + i] = IF require_view_object(view) THEN Argument("texture_view", view.texture, view.mip_slice) ELSE Argument("texture", view.texture, 0),
                               !.m_bindings[binding_index + 1].m_resources[write.first_array_index + i] = view.texture,
                               !.written = @ \cup {Access(binding_index, argument_offset + i, write.first_array_index + i)}]
          [] OTHER ->
               IF ~created.sampler
               THEN [st EXCEPT !.status = "bad_platform_call",
                               !.calls = Append(st.calls, Mtl("newSamplerState", << SamplerDescriptor(view) >>))]
               ELSE [st EXCEPT !.num_samplers = st.num_samplers + 1,
                               !.m_samplers = insert_or_assign(st.m_samplers, write.binding_slot + write.first_array_index + i, st.num_samplers + 1),
                               !.contents[argument_offset + i] = Argument("sampler", "sampler", st.num_samplers + 1),
                               !.written = @ \cup {Access(binding_index, argument_offset + i, NoRecord)},
                               !.calls = Append(st.calls, Mtl("newSamplerState", << SamplerDescriptor(view) >>))]

RECURSIVE WriteViews(_, _, _, _, _, _)
WriteViews(st, write, binding_index, argument_offset, i, created) ==
    IF st.status # "ok" \/ ~(i < Len(ViewsOf(write)))
    THEN st
    ELSE WriteViews(WriteView(st, write, binding_index, argument_offset, i, created), write, binding_index, argument_offset, i + 1, created)

\* The body of for(auto& write : writes).
Write(st, layout, write, created) ==
    LET binding_index == FindBinding(layout.m_bindings, write.binding_slot)
    IN  IF binding_index = Len(layout.m_bindings)
        THEN [st EXCEPT !.status = "bad_arguments"]
        ELSE WriteViews(st, write, binding_index, layout.m_argument_offsets[binding_index] + write.first_array_index, 0, created)

\* the loop over the batch going on after a write failed, keeping the first error
RECURSIVE Writes_past_failure(_, _, _, _, _)
Writes_past_failure(st, layout, writes, n, created) ==
    IF n > Len(writes)
    THEN st
    ELSE Writes_past_failure([Write([st EXCEPT !.status = "ok"], layout, writes[n], created) EXCEPT !.status = IF st.status # "ok" THEN st.status ELSE @], layout, writes, n + 1, created)

RECURSIVE Writes(_, _, _, _, _)
Writes(st, layout, writes, n, created) ==
    IF st.status # "ok" \/ n > Len(writes)
    THEN st
    ELSE Writes(Write(st, layout, writes[n], created), layout, writes, n + 1, created)

\* DescriptorSet::update_descriptors
update_descriptors(writes, created) ==
    /\ ~aborted
    /\ ~m_argument_buffer.null
    /\ \E st \in { Writes([contents |-> m_argument_buffer.contents, m_bindings |-> m_bindings, m_samplers |-> m_samplers, num_samplers |-> num_samplers, written |-> { }, status |-> "ok", calls |-> << >>], DescriptorSetLayouts[m_layout], writes, 1, created) }, crashed \in BOOLEAN :
        /\ st.num_samplers <= MaxSamplers
        \* a store outside the set's memory either ends the process or goes unnoticed
        /\ crashed => \E access \in st.written : OutsideMemory(m_argument_buffer.contents, m_bindings, access)
        /\ m_argument_buffer' = [m_argument_buffer EXCEPT !.contents = st.contents]
        /\ m_bindings' = st.m_bindings
        /\ m_samplers' = st.m_samplers
        /\ num_samplers' = st.num_samplers
        /\ written' = st.written
        /\ aborted' = crashed
        /\ last_call' = Call("update_descriptors", << writes >>, IF crashed THEN "crash" ELSE st.status)
        /\ backend' = st.calls
        /\ UNCHANGED << fields, attached, m_layout, lifetime >>

Created == [view : BOOLEAN, sampler : BOOLEAN]

NextDS ==
    \/ \E desc \in DescriptorSetDescs, created \in BOOLEAN :
           DescriptorSet_init(desc, created) /\ UNCHANGED << outside_sets, lifetime >>
    \/ /\ ~m_argument_buffer.null
       /\ \E writes \in WriteBatches(m_layout), created \in Created :
              update_descriptors(writes, created) /\ UNCHANGED outside_sets

SpecDS == Init /\ [][NextDS]_vars

(* ------------------ descriptor sets in a command buffer ---------------- *)
\* The resources whose addresses or ids the set under test ("set_a") holds.
BoundResources ==
    UNION { { m_bindings[b].m_resources[i] : i \in DOMAIN m_bindings[b].m_resources } : b \in 1..Len(m_bindings) } \ {NULL}

\* The caller drops its reference to a resource (a Ref<IResource> goes out of scope).
release(resource) ==
    /\ ~aborted
    /\ resource \in held
    /\ held' = held \ {resource}
    /\ last_call' = Call("release", << resource >>, "ok")
    /\ backend' = << >>
    /\ UNCHANGED << aborted, fields, attached, recorded, set_fields, outside_sets >>

\* The strong references to a resource: the caller's and those of the retain list.
\* m_bindings[].m_resources holds plain pointers (m_buffer.get(), m_texture.get()).
RefCount(resource) ==
    (IF resource \in held THEN 1 ELSE 0) + Cardinality({ i \in 1..Len(m_objs) : m_objs[i] = resource })

\* The command just recorded named `sets`: the live resources set_a binds now are
\* what the GPU will read when the command buffer runs.
Recording(sets) ==
    recorded' = IF last_call'.status = "ok" /\ "set_a" \in sets
                THEN recorded \cup { resource \in BoundResources : RefCount(resource) > 0 }
                ELSE recorded

NextLife ==
    \/ DescriptorSet_init([layout |-> "layout_fixed", num_variable_descriptors |-> 0], TRUE) /\ UNCHANGED << outside_sets, lifetime >>
    \/ /\ ~m_argument_buffer.null
       /\ \E writes \in { << UniformWrite >>, << WriteDescriptorSet(0, 0, "uniform_buffer_view", << BufferViewDesc("buf_b", 0, 1, 32, "unknown") >>, << >>, << >>) >> } :
              update_descriptors(writes, [view |-> TRUE, sampler |-> TRUE]) /\ UNCHANGED outside_sets
    \/ \E resource \in Buffers : release(resource)
    \/ reset(TRUE) /\ recorded' = { } /\ UNCHANGED << held, set_fields, outside_sets >>
    \/ attach_device_object("buf_b") /\ UNCHANGED other_objects
    \/ begin_render_pass(CHOOSE desc \in RenderPassDescs : desc.depth_stencil_attachment = NoDepthStencil /\ desc.color_attachments[1].texture = "tex_a") /\ UNCHANGED other_objects
    \/ \E set \in DescriptorSets : set_graphics_descriptor_set(0, set) /\ Recording({set}) /\ UNCHANGED << held, set_fields, outside_sets >>
    \/ \E sets \in DescriptorSetSpans : set_graphics_descriptor_sets(0, sets) /\ Recording({ sets[i] : i \in 1..Len(sets) }) /\ UNCHANGED << held, set_fields, outside_sets >>
    \/ end_render_pass /\ UNCHANGED other_objects
    \/ begin_compute_pass /\ UNCHANGED other_objects
    \/ \E set \in DescriptorSets : set_compute_descriptor_set(0, set) /\ Recording({set}) /\ UNCHANGED << held, set_fields, outside_sets >>
    \/ end_compute_pass /\ UNCHANGED other_objects
    \/ submit /\ UNCHANGED other_objects
    \/ \E status \in {"completed", "error"} : gpu_complete(status) /\ UNCHANGED other_objects

SpecLife == Init /\ [][NextLife]_vars

(* ---------------------------- resource heaps --------------------------- *)
\* D3D12_DEFAULT_MSAA_RESOURCE_PLACEMENT_ALIGNMENT, 4 MB
D3D12_DEFAULT_MSAA_RESOURCE_PLACEMENT_ALIGNMENT == 4194304

ResourceHeapUsageFlag == {"buffer", "texture_non_rt_ds", "texture_rt_ds", "texture_msaa"}
\* ResourceHeapDesc: every subset of the usage flags, every memory type
ResourceHeapDescs == [type : {"local", "upload", "readback"}, usages : SUBSET ResourceHeapUsageFlag, size : {65536}]

\* D3D12_HEAP_PROPERTIES of a memory type
encode_heap_properties(type) ==
    CASE type = "upload" -> "D3D12_HEAP_TYPE_UPLOAD"
      [] type = "readback" -> "D3D12_HEAP_TYPE_READBACK"
      [] OTHER -> "D3D12_HEAP_TYPE_DEFAULT"

\* the D3D12_HEAP_DESC with the two texture tests exchanged
HeapDesc_textures_swapped(desc) ==
    [null |-> FALSE,
     SizeInBytes |-> desc.size,
     Properties |-> encode_heap_properties(desc.type),
     Alignment |-> IF "texture_msaa" \in desc.usages THEN D3D12_DEFAULT_MSAA_RESOURCE_PLACEMENT_ALIGNMENT ELSE 0,
     Flags |-> (({"DENY_BUFFERS", "DENY_RT_DS_TEXTURES", "DENY_NON_RT_DS_TEXTURES"}
                    \ (IF "buffer" \in desc.usages THEN {"DENY_BUFFERS"} ELSE { }))
                    \ (IF "texture_rt_ds" \in desc.usages THEN {"DENY_NON_RT_DS_TEXTURES"} ELSE { }))
                    \ (IF "texture_non_rt_ds" \in desc.usages THEN {"DENY_RT_DS_TEXTURES"} ELSE { })]

\* D3D12_HEAP_DESC d of ResourceHeap::init
HeapDesc(desc) ==
    [null |-> FALSE,
     SizeInBytes |-> desc.size,
     Properties |-> encode_heap_properties(desc.type),
     Alignment |-> IF "texture_msaa" \in desc.usages THEN D3D12_DEFAULT_MSAA_RESOURCE_PLACEMENT_ALIGNMENT ELSE 0,
     Flags |-> (({"DENY_BUFFERS", "DENY_RT_DS_TEXTURES", "DENY_NON_RT_DS_TEXTURES"}
                    \ (IF "buffer" \in desc.usages THEN {"DENY_BUFFERS"} ELSE { }))
                    \ (IF "texture_rt_ds" \in desc.usages THEN {"DENY_RT_DS_TEXTURES"} ELSE { }))
                    \ (IF "texture_non_rt_ds" \in desc.usages THEN {"DENY_NON_RT_DS_TEXTURES"} ELSE { })]

\* A call on the resource heap.
HeapCall(op, args, status, calls) ==
    /\ last_call' = Call(op, args, status)
    /\ backend' = calls
    /\ UNCHANGED << aborted, fields, attached, tracking, set_fields, lifetime, thread_fields, dialog_fields, runtime_fields, later_objects >>

\* ResourceHeap::init; hr is the result of CreateHeap.
ResourceHeap_init(desc, hr) ==
    /\ ~aborted
    /\ m_heap.null
    /\ m_heap' = IF hr = "S_OK" THEN HeapDesc(desc) ELSE NullHeap
    /\ m_heap_usages' = desc.usages
    /\ HeapCall("ResourceHeap_init", << desc >>, IF hr = "S_OK" THEN "ok" ELSE "bad_platform_call",
                << D3D12("CreateHeap", << HeapDesc(desc) >>) >>)

\* sample ResourceDesc: a buffer, a render target, a depth stencil and a sampled texture
ResourceDescs ==
    { [type |-> "buffer", usages |-> {"shader_resource"}],
      [type |-> "texture_2d", usages |-> {"render_target", "shader_resource"}],
      [type |-> "texture_2d", usages |-> {"depth_stencil"}],
      [type |-> "texture_2d", usages |-> {"shader_resource"}] }

\* The heap flag that denies placing a resource of this description.
DenyFlag(desc) ==
    CASE desc.type = "buffer" -> "DENY_BUFFERS"
      [] desc.usages \cap {"render_target", "depth_stencil"} # { } -> "DENY_RT_DS_TEXTURES"
      [] OTHER -> "DENY_NON_RT_DS_TEXTURES"

\* Resource::init_as_placed: CreatePlacedResource fails with E_INVALIDARG on a
\* heap whose flags deny the resource.
init_as_placed(heap, heap_offset, desc) == IF DenyFlag(desc) \in heap.Flags THEN "bad_arguments" ELSE "ok"

\* ResourceHeap::new_resource
new_resource(heap_offset, desc) ==
    /\ ~aborted
    /\ ~m_heap.null
    /\ HeapCall("new_resource", << heap_offset, desc >>, init_as_placed(m_heap, heap_offset, desc),
                << D3D12("CreatePlacedResource", << heap_offset, desc >>) >>)
    /\ UNCHANGED heap_fields

NextHeap ==
    \/ \E desc \in ResourceHeapDescs, hr \in {"S_OK", "E_OUTOFMEMORY"} : ResourceHeap_init(desc, hr)
    \/ \E desc \in ResourceDescs : new_resource(0, desc)

SpecHeap == Init /\ [][NextHeap]_vars

(* ------------------- concurrent resource creation ---------------------- *)
\* A step of a thread inside ResourceHeap::new_resource.
ThreadStep(op, args, status) ==
    /\ last_call' = Call(op, args, status)
    /\ backend' = << >>
    /\ UNCHANGED << fields, attached, tracking, set_fields, lifetime, heap_fields, dialog_fields, runtime_fields, later_objects >>

\* lutsassert() on entry: the TSGuard constructor exchanges the lock's owning
\* thread for the current one and asserts that the lock was free or its own.
new_resource_enter(t) ==
    /\ ~aborted
    /\ ~m_heap.null
    /\ pc[t] = "idle"
    /\ m_last_thread' = [m_last_thread EXCEPT ![t] = m_owning_thread]
    /\ m_owning_thread' = t
    /\ IF m_owning_thread = NULL \/ m_owning_thread = t
       THEN /\ pc' = [pc EXCEPT ![t] = "placing"]
            /\ placed' = [placed EXCEPT ![t] = NULL]
            /\ ThreadStep("lutsassert", << t >>, "ok")
            /\ UNCHANGED aborted
       ELSE /\ aborted' = TRUE
            /\ ThreadStep("lutsassert", << t >>, "assert_fail")
            /\ UNCHANGED << pc, placed >>

\* new_object<Resource>() and obj->init_as_placed(m_heap.Get(), heap_offset, desc, ...)
new_resource_place(t, heap_offset, desc) ==
    /\ ~aborted
    /\ pc[t] = "placing"
    /\ placed' = [placed EXCEPT ![t] = init_as_placed(m_heap, heap_offset, desc)]
    /\ pc' = [pc EXCEPT ![t] = "leaving"]
    /\ ThreadStep("init_as_placed", << t, heap_offset, desc >>, init_as_placed(m_heap, heap_offset, desc))
    /\ UNCHANGED << aborted, m_owning_thread, m_last_thread >>

\* The return: the TSGuard destructor gives the lock back to the thread it took it from.
new_resource_leave(t) ==
    /\ ~aborted
    /\ pc[t] = "leaving"
    /\ m_owning_thread' = m_last_thread[t]
    /\ pc' = [pc EXCEPT ![t] = "idle"]
    /\ ThreadStep("new_resource", << t >>, placed[t])
    /\ UNCHANGED << aborted, m_last_thread, placed >>

NextThreads ==
    \/ \E desc \in ResourceHeapDescs, hr \in {"S_OK", "E_OUTOFMEMORY"} : ResourceHeap_init(desc, hr)
    \/ \E t \in Threads : new_resource_enter(t)
    \/ \E t \in Threads, desc \in ResourceDescs : new_resource_place(t, 0, desc)
    \/ \E t \in Threads : new_resource_leave(t)

SpecThreads == Init /\ [][NextThreads]_vars

(* ----------------------------- file dialogs ---------------------------- *)
\* the directory and the file names the user can select
SelectedDir == "C:\\dir"
FileNames == << "a.txt", "b.txt", "c.txt", "d.txt", "e.txt" >>

\* What GetOpenFileNameW / GetSaveFileNameW leave behind: FALSE with
\* CommDlgExtendedError() = 0 when the user cancelled, FALSE with an error code
\* when the dialog failed, TRUE with the selected files otherwise.
Cancelled == [res |-> FALSE, err_code |-> 0, files |-> << >>]
DialogFailed == [res |-> FALSE, err_code |-> 12291, files |-> << >>]
Selected(n) == [res |-> TRUE, err_code |-> 0, files |-> SubSeq(FileNames, 1, n)]
GetSaveFileNameW == { Cancelled, DialogFailed, Selected(1) }
GetOpenFileNameW(flags) ==
    GetSaveFileNameW \cup (IF "multi_select" \in flags THEN { Selected(n) : n \in 2..MaxFiles } ELSE { })

\* ofn.lpstrFile after a selection, as its NUL-terminated strings: the full path
\* of a single file, or the directory, each file name and the empty string of
\* the final double NUL.
lpstrFile(result) ==
    IF Len(result.files) = 1
    THEN << SelectedDir \o "\\" \o result.files[1] >>
    ELSE << SelectedDir >> \o result.files \o << "" >>

\* what the buffer holds past the final double NUL
StaleStrings == {"", "stale"}

\* A step of a dialog function.
DialogStep(op, args, status) ==
    /\ last_call' = Call(op, args, status)
    /\ backend' = << >>
    /\ UNCHANGED << fields, attached, tracking, set_fields, lifetime, heap_fields, thread_fields, runtime_fields, later_objects >>

\* open_file_dialog up to its return or, for several selected files, up to the
\* loop over the names.
open_file_dialog(flags, result) ==
    /\ ~aborted
    /\ dialog.pc = "idle"
    /\ IF ~result.res
       THEN /\ dialog' = NoDialog
            /\ DialogStep("open_file_dialog", << flags, result >>, IF result.err_code = 0 THEN "interrupted" ELSE "bad_platform_call")
       ELSE IF Len(result.files) > 1
            THEN /\ dialog' = [pc |-> "loop", dir |-> SelectedDir, files |-> result.files, lpstrFile |-> lpstrFile(result), wdir_cur |-> 2, paths |-> << >>]
                 /\ DialogStep("open_file_dialog", << flags, result >>, "running")
            ELSE /\ dialog' = [NoDialog EXCEPT !.files = result.files, !.lpstrFile = lpstrFile(result), !.paths = << lpstrFile(result)[1] >>]
                 /\ DialogStep("open_file_dialog", << flags, result >>, "ok")
    /\ UNCHANGED aborted

\* One iteration of while (wdir_cur): the pointer is never null, so the body runs
\* again; past the final double NUL it reads what the buffer happens to hold.
open_file_dialog_loop(stale) ==
    /\ ~aborted
    /\ dialog.pc = "loop"
    /\ Len(dialog.paths) < MaxFiles + 2
    /\ LET name == IF dialog.wdir_cur <= Len(dialog.lpstrFile) THEN dialog.lpstrFile[dialog.wdir_cur] ELSE stale
       IN  dialog' = [dialog EXCEPT !.paths = Append(@, dialog.dir \o name), !.wdir_cur = @ + 1]
    /\ DialogStep("open_file_dialog", << >>, "running")
    /\ UNCHANGED aborted

\* Reading on past the end of what the dialog wrote ends outside the buffer.
open_file_dialog_overrun ==
    /\ ~aborted
    /\ dialog.pc = "loop"
    /\ dialog.wdir_cur > Len(dialog.lpstrFile)
    /\ aborted' = TRUE
    /\ DialogStep("open_file_dialog", << >>, "crash")
    /\ UNCHANGED dialog

save_file_dialog(result) ==
    /\ ~aborted
    /\ dialog.pc = "idle"
    /\ dialog' = IF result.res THEN [NoDialog EXCEPT !.files = result.files, !.lpstrFile = lpstrFile(result), !.paths = << lpstrFile(result)[1] >>] ELSE NoDialog
    /\ DialogStep("save_file_dialog", << result >>,
                  IF result.res THEN "ok" ELSE IF result.err_code = 0 THEN "interrupted" ELSE "bad_platform_call")
    /\ UNCHANGED aborted

\* The HRESULTs of the calls open_dir_dialog makes; Show returns
\* HRESULT_FROM_WIN32(ERROR_CANCELLED) when the user cancels.
FAILED(hr) == hr # "S_OK"
DirDialogResults ==
    [CoCreateInstance : {"S_OK", "E_FAIL"}, initial_dir : {"", SelectedDir}, SHParseDisplayName : {"S_OK", "E_FAIL"},
     Show : {"S_OK", "ERROR_CANCELLED", "E_FAIL"}, GetResult : {"S_OK", "E_FAIL"}, GetDisplayName : {"S_OK", "E_FAIL"}]

\* Path path of open_dir_dialog before its last test: set only when Show,
\* GetResult and GetDisplayName all succeed.
ShownPath(result) ==
    IF ~FAILED(result.Show) /\ ~FAILED(result.GetResult) /\ ~FAILED(result.GetDisplayName) THEN SelectedDir ELSE ""

open_dir_dialog(result) ==
    /\ ~aborted
    /\ dialog.pc = "idle"
    /\ LET status == IF FAILED(result.CoCreateInstance) THEN "bad_platform_call"
                     ELSE IF result.initial_dir # "" /\ FAILED(result.SHParseDisplayName) THEN "bad_platform_call"
                     ELSE IF ShownPath(result) = "" THEN "bad_platform_call"
                     ELSE "ok"
       IN  /\ dialog' = IF status = "ok" THEN [NoDialog EXCEPT !.paths = << ShownPath(result) >>] ELSE NoDialog
           /\ DialogStep("open_dir_dialog", << result >>, status)
    /\ UNCHANGED aborted

FileOpenDialogFlags == { { }, {"multi_select"} }

NextDialog ==
    \/ \E flags \in FileOpenDialogFlags : \E result \in GetOpenFileNameW(flags) : open_file_dialog(flags, result)
    \/ \E stale \in StaleStrings : open_file_dialog_loop(stale)
    \/ open_file_dialog_overrun
    \/ \E result \in GetSaveFileNameW : save_file_dialog(result)
    \/ \E result \in DirDialogResults : open_dir_dialog(result)

SpecDialog == Init /\ [][NextDialog]_vars

(* --------------------- runtime start-up and shutdown ------------------- *)
\* how many times the runtime is started and closed
MaxCycles == 3

\* The calls of Luna::init in order; memory_check is LUNA_RUNTIME_CHECK_MEMORY_LEAK.
InitCalls(memory_check) ==
    << "OS::init" >>
       \o (IF memory_check THEN << "memory_check_init" >> ELSE << >>)
       \o << "error_init", "name_init", "type_registry_init", "add_builtin_typeinfo",
             "register_types_and_interfaces", "thread_init", "random_init", "log_init", "module_init" >>

\* Luna::close making its calls in the order of Luna::init
CloseCalls_in_init_order(memory_check) ==
    << "OS::close" >>
       \o (IF memory_check THEN << "memory_check_close" >> ELSE << >>)
       \o << "error_close", "name_close", "type_registry_close", "object_close",
             "thread_close", "random_close", "log_close", "module_close" >>

\* The calls of Luna::close in order.
CloseCalls(memory_check) ==
    << "module_close", "log_close", "random_close", "thread_close", "object_close",
       "type_registry_close", "name_close", "error_close" >>
       \o (IF memory_check THEN << "memory_check_close" >> ELSE << >>)
       \o << "OS::close" >>

\* A step of Luna::init or Luna::close.
RuntimeStep(op, args, status) ==
    /\ last_call' = Call(op, args, status)
    /\ backend' = << >>
    /\ UNCHANGED << aborted, fields, attached, tracking, set_fields, lifetime, heap_fields, thread_fields, dialog_fields, later_objects >>

\* Luna::init, one call at a time: entered on a closed runtime, it returns true
\* after module_init.
Luna_init(memory_check) ==
    /\ ~aborted
    /\ \/ /\ runtime.pc = "closed"
          /\ runtime.cycles < MaxCycles
          /\ runtime.cycles = 0 \/ memory_check = runtime.memory_check
          /\ runtime' = [runtime EXCEPT !.pc = "init", !.memory_check = memory_check,
                                        !.started = << InitCalls(memory_check)[1] >>, !.stopped = << >>]
       \/ /\ runtime.pc = "init"
          /\ memory_check = runtime.memory_check
          /\ runtime' = [runtime EXCEPT !.started = Append(@, InitCalls(memory_check)[Len(@) + 1]),
                                        !.pc = IF Len(runtime.started) + 1 = Len(InitCalls(memory_check)) THEN "running" ELSE "init"]
    /\ RuntimeStep("Luna::init", << >>, IF runtime'.pc = "running" THEN "true" ELSE "running")

\* Luna::close, one call at a time: entered on a running runtime, it returns
\* after OS::close.
Luna_close ==
    /\ ~aborted
    /\ runtime.pc \in {"running", "close"}
    /\ runtime' = [runtime EXCEPT !.stopped = Append(@, CloseCalls(runtime.memory_check)[Len(@) + 1]),
                                  !.pc = IF Len(runtime.stopped) + 1 = Len(CloseCalls(runtime.memory_check)) THEN "closed" ELSE "close",
                                  !.cycles = IF Len(runtime.stopped) + 1 = Len(CloseCalls(runtime.memory_check)) THEN @ + 1 ELSE @]
    /\ RuntimeStep("Luna::close", << >>, IF runtime'.pc = "closed" THEN "ok" ELSE "running")

NextRuntime ==
    \/ \E memory_check \in BOOLEAN : Luna_init(memory_check)
    \/ Luna_close

SpecRuntime == Init /\ [][NextRuntime]_vars

(* ------------------------- mipmap generation --------------------------- *)
\* the most mip levels of a sample texture, and the most commands a command
\* buffer may hold when generate_mipmaps is called on it
MaxMipLevels == 3
MaxRecorded == 8

\* TextureDesc of the textures handed to generate_mipmaps: 2D textures of depth 1
\* with 1 to MaxMipLevels mips, and three that fail a lucheck
Extents == {1, 4, 20}
max(a, b) == IF a > b THEN a ELSE b
MipTextureDescs ==
    { desc \in [width : Extents, height : Extents, depth : {1}, type : {"tex2d"}, mip_levels : 1..MaxMipLevels] :
          2 ^ (desc.mip_levels - 1) <= max(desc.width, desc.height) }
       \cup { [width |-> 4, height |-> 4, depth |-> 1, type |-> "tex2d", mip_levels |-> 0],
              [width |-> 4, height |-> 4, depth |-> 1, type |-> "tex3d", mip_levels |-> 1],
              [width |-> 4, height |-> 4, depth |-> 2, type |-> "tex2d", mip_levels |-> 1] }

\* which call of generate_mipmaps fails, and for new_descriptor_set in which pass
MipFailures ==
    { [at |-> at, pass |-> 0] : at \in {"none", "new_buffer", "map", "submit"} }
       \cup { [at |-> "new_descriptor_set", pass |-> j] : j \in 0..(MaxMipLevels - 2) }

\* align_upper(value, alignment): value rounded up to a multiple of alignment
align_upper(value, alignment) == ((value + alignment - 1) \div alignment) * alignment

\* A command recorded on the command buffer.
Cmd(op, args) == [op |-> op, args |-> args]

\* The descriptor set of pass j: its uniform buffer view starts at cb_size * j
\* of the constant buffer, its textures are mips j and j + 1; serial tells the
\* sets of different passes and calls apart.
MipDescriptorSet(serial, j) == [serial |-> serial, constants |-> j, read_mip |-> j, write_mip |-> j + 1]

\* for (j = 0; j < mip_levels - 1; ++j) { dest->x = 1.0f / width; ... }: the
\* extents whose reciprocals the constant buffer holds, one entry per pass.
MipConstants(desc) ==
    [j \in 1..(desc.mip_levels - 1) |->
        [width |-> max(desc.width \div (2 ^ j), 1), height |-> max(desc.height \div (2 ^ j), 1)]]

\* The second loop of generate_mipmaps from pass j on: barrier, descriptor set,
\* set_compute_descriptor_set, attach_device_object, dispatch, then halve.
RECURSIVE RecordPasses(_, _, _, _, _, _)
RecordPasses(desc, j, width, height, st, failure) ==
    IF ~(j < desc.mip_levels - 1)
    THEN st
    ELSE IF failure.at = "new_descriptor_set" /\ failure.pass = j
         THEN [st EXCEPT !.status = "bad_platform_call", !.calls = Append(@, Cmd("resource_barrier", << j, j + 1 >>))]
         ELSE RecordPasses(desc, j + 1, max(width \div 2, 1), max(height \div 2, 1),
                  [st EXCEPT !.calls = @ \o << Cmd("resource_barrier", << j, j + 1 >>),
                                              Cmd("set_compute_descriptor_set", << 0, MipDescriptorSet(Len(st.m_objs), j) >>),
                                              Cmd("attach_device_object", << MipDescriptorSet(Len(st.m_objs), j) >>),
                                              Cmd("dispatch", << align_upper(width, 8) \div 8, align_upper(height, 8) \div 8, 1 >>) >>,
                             !.m_objs = Append(@, MipDescriptorSet(Len(st.m_objs), j))],
                  failure)

\* A step of generate_mipmaps or of the GPU.
MipStep(op, args, status) ==
    /\ last_call' = Call(op, args, status)
    /\ backend' = << >>
    /\ UNCHANGED << fields, attached, earlier_objects, list_fields, relocated_fields >>

\* generate_mipmaps without its early return
EarlyReturn_never(desc) == FALSE

\* if (desc.mip_levels == 1) return ok;
EarlyReturn(desc) == desc.mip_levels = 1

\* generate_mipmaps up to its return, or up to compute_cmdbuf->wait() when
\* submit succeeded.
generate_mipmaps_record(desc, failure) ==
    /\ ~aborted
    /\ mips.pc = "idle" /\ mips.gpu = "idle" /\ Len(mips.calls) <= MaxRecorded
    /\ IF ~(desc.mip_levels # 0 /\ desc.type = "tex2d" /\ desc.depth = 1)
       THEN /\ aborted' = TRUE
            /\ MipStep("generate_mipmaps", << desc >>, "assert_fail")
            /\ UNCHANGED mips
       ELSE IF EarlyReturn(desc)
       THEN /\ UNCHANGED << aborted, mips >>
            /\ MipStep("generate_mipmaps", << desc >>, "ok")
       ELSE LET begun == [calls |-> mips.calls \o << Cmd("set_context", << "compute" >>),
                                                     Cmd("set_compute_shader_input_layout", << "m_mipmapping_slayout" >>),
                                                     Cmd("set_compute_pipeline_state", << "m_mipmapping_pso" >>) >>,
                          m_objs |-> mips.m_objs, status |-> "ok"]
            IN  /\ UNCHANGED aborted
                /\ IF failure.at \in {"new_buffer", "map"}
                   THEN /\ mips' = [mips EXCEPT !.base = Len(mips.calls), !.calls = begun.calls]
                        /\ MipStep("generate_mipmaps", << desc >>, "bad_platform_call")
                   ELSE \E st \in { RecordPasses(desc, 0, desc.width \div 2, desc.height \div 2, begun, failure) } :
                           IF st.status # "ok"
                           THEN /\ mips' = [mips EXCEPT !.base = Len(mips.calls), !.constants = MipConstants(desc),
                                                        !.calls = st.calls, !.m_objs = st.m_objs]
                                /\ MipStep("generate_mipmaps", << desc >>, st.status)
                           ELSE IF failure.at = "submit"
                           THEN /\ mips' = [mips EXCEPT !.base = Len(mips.calls), !.constants = MipConstants(desc),
                                                        !.calls = Append(st.calls, Cmd("submit", << >>)), !.m_objs = st.m_objs]
                                /\ MipStep("generate_mipmaps", << desc >>, "bad_platform_call")
                           ELSE /\ mips' = [mips EXCEPT !.base = Len(mips.calls), !.constants = MipConstants(desc),
                                                        !.calls = Append(st.calls, Cmd("submit", << >>)), !.m_objs = st.m_objs,
                                                        !.pc = "waiting", !.gpu = "running"]
                                /\ MipStep("generate_mipmaps", << desc >>, "waiting")

\* The GPU finishes the submitted commands.
gpu_finishes ==
    /\ ~aborted
    /\ mips.gpu = "running"
    /\ mips' = [mips EXCEPT !.gpu = "completed"]
    /\ UNCHANGED aborted
    /\ MipStep("gpu_finishes", << >>, "ok")

\* generate_mipmaps resetting the command buffer without waiting for the GPU
generate_mipmaps_finish_no_wait(created) ==
    /\ ~aborted
    /\ mips.pc = "waiting"
    /\ mips' = [mips EXCEPT !.pc = "idle", !.calls = << >>, !.m_objs = << >>, !.base = 0,
                            !.gpu = IF mips.gpu = "running" THEN "running" ELSE IF created THEN "idle" ELSE "null"]
    /\ UNCHANGED aborted
    /\ MipStep("generate_mipmaps", << >>, IF created THEN "ok" ELSE "bad_platform_call")

\* The rest of generate_mipmaps: wait() returns once the GPU has finished, then
\* reset() clears the retain list and takes a new native command buffer
\* (created says whether there was one).
generate_mipmaps_finish(created) ==
    /\ ~aborted
    /\ mips.pc = "waiting"
    /\ mips.gpu = "completed"
    /\ mips' = [mips EXCEPT !.pc = "idle", !.calls = << >>, !.m_objs = << >>, !.base = 0,
                            !.gpu = IF created THEN "idle" ELSE "null"]
    /\ UNCHANGED aborted
    /\ MipStep("generate_mipmaps", << >>, IF created THEN "ok" ELSE "bad_platform_call")

NextMips ==
    \/ \E desc \in MipTextureDescs, failure \in MipFailures : generate_mipmaps_record(desc, failure)
    \/ gpu_finishes
    \/ \E created \in BOOLEAN : generate_mipmaps_finish(created)

SpecMips == Init /\ [][NextMips]_vars

(* --------------------------- shape draw list --------------------------- *)
\* the most draw calls and the most vertices a list under test holds
MaxDrawCalls == 2
MaxListVertices == 4

\* ShapeDrawCall with the state of the list l at the time it is created.
ShapeDrawCall(atlas, texture, sampler) ==
    [atlas |-> atlas, texture |-> texture, sampler |-> sampler,
     origin_point |-> << 0, 0 >>, rotation |-> 0, clip_rect |-> << 0, 0, 0, 0 >>,
     base_index |-> 0, num_indices |-> 0]
ShapeDrawCallResource(vertices, indices) == [vertices |-> vertices, indices |-> indices]

\* ShapeDrawList::state_equal(index)
state_equal(l, index) ==
    LET dc == l.m_draw_calls[index + 1]
    IN  /\ dc.atlas = l.m_atlas
        /\ dc.texture = l.m_texture
        /\ dc.origin_point = l.m_origin
        /\ dc.rotation = l.m_rotation
        /\ dc.clip_rect = l.m_clip_rect
        /\ dc.sampler = l.m_sampler

\* the search for a draw call of the current state starting at index 0
FindDrawCall_from_start(l, i) ==
    IF \E k \in 0..(Len(l.m_draw_calls) - 1) : state_equal(l, k)
    THEN CHOOSE k \in 0..(Len(l.m_draw_calls) - 1) : state_equal(l, k) /\ \A n \in 0..(k - 1) : ~state_equal(l, n)
    ELSE Len(l.m_draw_calls)

\* for (u32 i = m_dc_barrier_index; i < m_draw_calls.size(); ++i) if (state_equal(i)):
\* the first such index from i on, or m_draw_calls.size().
RECURSIVE FindDrawCall(_, _)
FindDrawCall(l, i) ==
    IF i < Len(l.m_draw_calls) /\ ~state_equal(l, i)
    THEN FindDrawCall(l, i + 1)
    ELSE i

\* new_draw_call(): a draw call of the list's current state at the end.
new_draw_call(l) ==
    [l EXCEPT !.m_draw_calls = Append(@, ShapeDrawCall(l.m_atlas, l.m_texture, l.m_sampler))]

\* ShapeDrawList::get_current_draw_call: the list with m_target_dc_index set.
get_current_draw_call(l) ==
    IF l.m_state_dirty \/ l.m_dc_barrier_index = Len(l.m_draw_calls)
    THEN IF FindDrawCall(l, l.m_dc_barrier_index) < Len(l.m_draw_calls)
         THEN [l EXCEPT !.m_state_dirty = FALSE, !.m_target_dc_index = FindDrawCall(l, l.m_dc_barrier_index)]
         ELSE [new_draw_call(l) EXCEPT !.m_state_dirty = FALSE, !.m_target_dc_index = Len(l.m_draw_calls)]
    ELSE l

\* ShapeDrawList::get_draw_call_resource: the list with resources up to index.
RECURSIVE get_draw_call_resource(_, _)
get_draw_call_resource(l, index) ==
    IF Len(l.m_draw_call_resources) <= index
    THEN get_draw_call_resource([l EXCEPT !.m_draw_call_resources = Append(@, ShapeDrawCallResource(<< >>, << >>))], index)
    ELSE l

\* A call on the list.
ListCall(op, args, status, calls) ==
    /\ last_call' = Call(op, args, status)
    /\ backend' = calls
    /\ UNCHANGED << fields, attached, earlier_objects, mips_fields, relocated_fields >>

\* The number of vertices in all the resources of the list.
RECURSIVE CountVertices(_, _)
CountVertices(resources, n) == IF n = 0 THEN 0 ELSE CountVertices(resources, n - 1) + Len(resources[n].vertices)
RECURSIVE CountIndices(_, _)
CountIndices(resources, n) == IF n = 0 THEN 0 ELSE CountIndices(resources, n - 1) + Len(resources[n].indices)

\* The common body of draw_shape_raw and draw_shape.
DrawInto(op, args, vertices, indices) ==
    /\ ~aborted
    /\ \E current \in { get_draw_call_resource(get_current_draw_call(list), get_current_draw_call(list).m_target_dc_index) } :
          /\ Len(current.m_draw_calls) <= MaxDrawCalls
          /\ CountVertices(current.m_draw_call_resources, Len(current.m_draw_call_resources)) + Len(vertices) <= MaxListVertices
          /\ IF current.m_draw_calls[current.m_target_dc_index + 1].atlas = NULL
             THEN /\ list' = current
                  /\ aborted' = TRUE
                  /\ ListCall(op, args, "assert_fail", << >>)
             ELSE /\ list' = [current EXCEPT
                                 !.m_draw_call_resources[current.m_target_dc_index + 1].vertices = @ \o vertices,
                                 !.m_draw_call_resources[current.m_target_dc_index + 1].indices = @ \o indices]
                  /\ UNCHANGED aborted
                  /\ ListCall(op, args, "ok", << >>)

\* ShapeDrawList::draw_shape_raw(vertices, indices)
draw_shape_raw(vertices, indices) == DrawInto("draw_shape_raw", << vertices, indices >>, vertices, indices)

\* ShapeDrawList::draw_shape: four vertices and the six indices of two
\* triangles, offset by the vertices the draw call already has.
draw_shape(begin_command) ==
    LET idx_offset == Len(get_draw_call_resource(get_current_draw_call(list), get_current_draw_call(list).m_target_dc_index).m_draw_call_resources[get_current_draw_call(list).m_target_dc_index + 1].vertices)
    IN  DrawInto("draw_shape", << begin_command >>,
                 << begin_command, begin_command, begin_command, begin_command >>,
                 << idx_offset, idx_offset + 1, idx_offset + 2, idx_offset, idx_offset + 2, idx_offset + 3 >>)

\* set_shape_atlas and set_sampler: the state changes and the next
\* draw looks for a draw call again.
set_shape_atlas(atlas) ==
    /\ ~aborted
    /\ list' = [list EXCEPT !.m_atlas = atlas, !.m_state_dirty = TRUE]
    /\ UNCHANGED aborted
    /\ ListCall("set_shape_atlas", << atlas >>, "ok", << >>)
set_sampler(sampler) ==
    /\ ~aborted
    /\ list' = [list EXCEPT !.m_sampler = sampler, !.m_state_dirty = TRUE]
    /\ UNCHANGED aborted
    /\ ListCall("set_sampler", << sampler >>, "ok", << >>)

\* drawcall_barrier(): the draw calls recorded so far take no more shapes.
Barrier(l) == [l EXCEPT !.m_dc_barrier_index = Len(l.m_draw_calls)]
drawcall_barrier ==
    /\ ~aborted
    /\ list' = Barrier(list)
    /\ UNCHANGED aborted
    /\ ListCall("drawcall_barrier", << >>, "ok", << >>)

\* ShapeDrawList::reset
ShapeDrawList_reset ==
    /\ ~aborted
    /\ list' = [list EXCEPT
                   !.m_draw_call_resources = [i \in 1..Len(@) |-> ShapeDrawCallResource(<< >>, << >>)],
                   !.m_draw_calls = << >>,
                   !.m_atlas = NULL, !.m_texture = NULL, !.m_sampler = "default_sampler",
                   !.m_origin = << 0, 0 >>, !.m_rotation = 0, !.m_clip_rect = << 0, 0, 0, 0 >>,
                   !.m_dc_barrier_index = 0, !.m_target_dc_index = 0, !.m_state_dirty = FALSE]
    /\ UNCHANGED aborted
    /\ ListCall("reset", << >>, "ok", << >>)

\* other lists handed to append_draw_list: their draw calls and resources
OtherLists ==
    { [m_draw_calls |-> << >>, m_draw_call_resources |-> << >>],
      [m_draw_calls |-> << ShapeDrawCall("atlas_a", NULL, "default_sampler") >>,
       m_draw_call_resources |-> << ShapeDrawCallResource(<< 0, 0, 0 >>, << 0, 1, 2 >>) >>],
      [m_draw_calls |-> << ShapeDrawCall("atlas_a", NULL, "default_sampler"), ShapeDrawCall("atlas_a", NULL, "default_sampler") >>,
       m_draw_call_resources |-> << ShapeDrawCallResource(<< 0, 0, 0 >>, << 0, 1, 2 >>), ShapeDrawCallResource(<< 0 >>, << 0 >>) >>] }

\* The loop of append_draw_list from draw call i of rhs on.
RECURSIVE AppendDrawCalls(_, _, _)
AppendDrawCalls(l, rhs, i) ==
    IF ~(i < Len(rhs.m_draw_calls))
    THEN l
    ELSE AppendDrawCalls(
             [get_draw_call_resource([l EXCEPT !.m_draw_calls = Append(@, [rhs.m_draw_calls[i + 1] EXCEPT !.base_index = 0, !.num_indices = 0])], Len(l.m_draw_calls))
                 EXCEPT !.m_draw_call_resources[Len(l.m_draw_calls) + 1] = get_draw_call_resource(rhs, i).m_draw_call_resources[i + 1]],
             rhs, i + 1)

\* ShapeDrawList::append_draw_list(draw_list), rhs being the other list
append_draw_list(rhs) ==
    /\ ~aborted
    /\ Len(list.m_draw_calls) + Len(rhs.m_draw_calls) <= MaxDrawCalls
    /\ CountVertices(list.m_draw_call_resources, Len(list.m_draw_call_resources)) + CountVertices(rhs.m_draw_call_resources, Len(rhs.m_draw_call_resources)) <= MaxListVertices
    /\ list' = Barrier(AppendDrawCalls(Barrier(list), rhs, 0))
    /\ UNCHANGED aborted
    /\ ListCall("append_draw_list", << rhs >>, "ok", << >>)

\* the packing loop writing every index as the draw call has it
RECURSIVE PackIndices_local(_, _)
PackIndices_local(l, n) ==
    IF n = 0 THEN << >> ELSE PackIndices_local(l, n - 1) \o l.m_draw_call_resources[n].indices

\* *index_dst = index + base_vertex_offset for the first n draw calls.
RECURSIVE PackIndices(_, _)
PackIndices(l, n) ==
    IF n = 0
    THEN << >>
    ELSE PackIndices(l, n - 1)
            \o [k \in 1..Len(l.m_draw_call_resources[n].indices) |->
                   l.m_draw_call_resources[n].indices[k] + CountVertices(l.m_draw_call_resources, n - 1)]

\* One use of a buffer by close(): which buffer is mapped, whether the
\* reference holds one, its capacity and the number of elements to pack.
MapBuffer(buffer, ref, needed) == [fn |-> "map", buffer |-> buffer, exists |-> ~ref.null, capacity |-> ref.capacity, needed |-> needed]
\* The indices close() wrote before unmapping the index buffer.
UnmapIndexBuffer(index_data) == [fn |-> "unmap", buffer |-> "index", index_data |-> index_data]

\* The first half of close(): a buffer is recreated when its capacity is below
\* the count; created says, per buffer, whether new_buffer returned one, and
\* status is the error of the first new_buffer that did not.
Recreate(l, created) ==
    LET num_vertices == CountVertices(l.m_draw_call_resources, Len(l.m_draw_call_resources))
        num_indices == CountIndices(l.m_draw_call_resources, Len(l.m_draw_call_resources))
        with_vertices ==
            IF l.m_vertex_buffer_capacity < num_vertices
            THEN IF created.vertex
                 THEN [list |-> [l EXCEPT !.m_vertex_buffer = [null |-> FALSE, capacity |-> num_vertices],
                                          !.m_vertex_buffer_capacity = num_vertices,
                                          !.m_vertex_buffer_size = num_vertices],
                       status |-> "ok"]
                 ELSE [list |-> l, status |-> "bad_platform_call"]
            ELSE [list |-> [l EXCEPT !.m_vertex_buffer_size = num_vertices], status |-> "ok"]
    IN  IF with_vertices.status # "ok"
        THEN with_vertices
        ELSE IF l.m_index_buffer_capacity < num_indices
             THEN IF created.index
                  THEN [list |-> [with_vertices.list EXCEPT !.m_index_buffer = [null |-> FALSE, capacity |-> num_indices],
                                                            !.m_index_buffer_capacity = num_indices,
                                                            !.m_index_buffer_size = num_indices],
                        status |-> "ok"]
                  ELSE [list |-> with_vertices.list, status |-> "bad_platform_call"]
             ELSE [list |-> [with_vertices.list EXCEPT !.m_index_buffer_size = num_indices], status |-> "ok"]

\* ShapeDrawList::close; mapped_ok says, per buffer, whether map succeeded. A
\* map through a reference that holds no buffer is a call on a null pointer.
ShapeDrawList_close(created, mapped_ok) ==
    /\ ~aborted
    /\ \E st \in { Recreate(list, created) } :
          LET l == st.list
              map_vertex == MapBuffer("vertex", l.m_vertex_buffer, l.m_vertex_buffer_size)
              map_index == MapBuffer("index", l.m_index_buffer, l.m_index_buffer_size)
          IN  IF st.status # "ok"
              THEN /\ list' = l
                   /\ UNCHANGED aborted
                   /\ ListCall("close", << >>, st.status, << >>)
              ELSE IF l.m_vertex_buffer.null
              THEN /\ list' = l
                   /\ aborted' = TRUE
                   /\ ListCall("close", << >>, "crash", << map_vertex >>)
              ELSE IF ~mapped_ok.vertex
              THEN /\ list' = l
                   /\ UNCHANGED aborted
                   /\ ListCall("close", << >>, "bad_platform_call", << map_vertex >>)
              ELSE IF l.m_index_buffer.null
              THEN /\ list' = l
                   /\ aborted' = TRUE
                   /\ ListCall("close", << >>, "crash", << map_vertex, map_index >>)
              ELSE IF ~mapped_ok.index
              THEN /\ list' = l
                   /\ UNCHANGED aborted
                   /\ ListCall("close", << >>, "bad_platform_call", << map_vertex, map_index >>)
              ELSE /\ list' = [l EXCEPT
                                  !.m_draw_calls = [i \in 1..Len(l.m_draw_calls) |->
                                                       [l.m_draw_calls[i] EXCEPT
                                                           !.base_index = CountIndices(l.m_draw_call_resources, i - 1),
                                                           !.num_indices = Len(l.m_draw_call_resources[i].indices)]]]
                   /\ UNCHANGED aborted
                   /\ ListCall("close", << >>, "ok", << map_vertex, map_index, UnmapIndexBuffer(PackIndices(l, Len(l.m_draw_calls))) >>)

\* sample arguments
RawShapes == { [vertices |-> << 0, 0 >>, indices |-> << 0, 1 >>], [vertices |-> << 0 >>, indices |-> << >>] }
BufferOutcomes == [vertex : BOOLEAN, index : BOOLEAN]

\* drawing, state changes and barriers
NextBatch ==
    \/ \E shape \in RawShapes : draw_shape_raw(shape.vertices, shape.indices)
    \/ \E begin_command \in {0} : draw_shape(begin_command)
    \/ \E atlas \in {NULL, "atlas_a"} : set_shape_atlas(atlas)
    \/ \E sampler \in {"default_sampler", "point_sampler"} : set_sampler(sampler)
    \/ drawcall_barrier
    \/ ShapeDrawList_reset
    \/ \E rhs \in OtherLists : append_draw_list(rhs)

SpecBatch == Init /\ [][NextBatch]_vars

\* drawing and closing
NextPack ==
    \/ \E shape \in RawShapes : draw_shape_raw(shape.vertices, shape.indices)
    \/ \E begin_command \in {0} : draw_shape(begin_command)
    \/ \E atlas \in {"atlas_a", "atlas_b"} : set_shape_atlas(atlas)
    \/ ShapeDrawList_reset
    \/ \E created \in BufferOutcomes, mapped_ok \in BufferOutcomes : ShapeDrawList_close(created, mapped_ok)

SpecPack == Init /\ [][NextPack]_vars

(* ------------------------- relocation of ranges ------------------------ *)
\* Pointers are offsets into the array; the place p points to is memory[p + 1].
\* memmove(dest, src, n): the n places from dest on get what the n places from
\* src on held before the call.
memmove(memory, dest, src, n) ==
    [i \in 1..Len(memory) |-> IF i - 1 >= dest /\ i - 1 < dest + n THEN memory[src + (i - 1 - dest) + 1] ELSE memory[i]]

\* One element relocated from src to dest: memcpy for a trivially relocatable
\* type, move_construct(dest, src) and destruct(src) otherwise.
RelocateOne(memory, dest, src, trivial) ==
    IF trivial
    THEN [memory EXCEPT ![dest + 1] = memory[src + 1]]
    ELSE [[memory EXCEPT ![dest + 1] = memory[src + 1]] EXCEPT ![src + 1] = Uninitialized]

\* the forward loop taking the elements from the last one down
RECURSIVE ForwardLoop_from_last(_, _, _, _, _)
ForwardLoop_from_last(memory, first, last, d_first, trivial) ==
    IF first = last
    THEN [pc |-> "relocated", memory |-> memory, result |-> d_first]
    ELSE [ForwardLoop_from_last(RelocateOne(memory, d_first + (last - 1 - first), last - 1, trivial), first, last - 1, d_first, trivial)
             EXCEPT !.result = d_first + (last - first)]

\* for (; first != last; ++d_first, (void) ++first): the array and d_first after the loop.
RECURSIVE ForwardLoop(_, _, _, _, _)
ForwardLoop(memory, first, last, d_first, trivial) ==
    IF first = last
    THEN [pc |-> "relocated", memory |-> memory, result |-> d_first]
    ELSE ForwardLoop(RelocateOne(memory, d_first, first, trivial), first + 1, last, d_first + 1, trivial)

\* while (first != last) { --last; --d_last; ... }: the array and d_last after the loop.
RECURSIVE BackwardLoop(_, _, _, _, _)
BackwardLoop(memory, first, last, d_last, trivial) ==
    IF first = last
    THEN [pc |-> "relocated", memory |-> memory, result |-> d_last]
    ELSE BackwardLoop(RelocateOne(memory, d_last - 1, last - 1, trivial), first, last - 1, d_last - 1, trivial)

\* The overloads: both iterators pointers to a trivially relocatable type, other
\* iterators to a trivially relocatable type, a type that is not trivially relocatable.
IteratorKinds == {"pointer", "iterator", "not_trivially_relocatable"}

\* A call of a relocation function.
RelocateCall(op, args, outcome) ==
    /\ relocated.pc = "constructed"
    /\ relocated' = outcome
    /\ last_call' = Call(op, args, "ok")
    /\ backend' = << >>
    /\ UNCHANGED << aborted, fields, attached, earlier_objects, mips_fields, list_fields >>

\* move_relocate_range(first, last, d_first)
move_relocate_range(kind, first, last, d_first) ==
    /\ first <= last
    /\ d_first + (last - first) <= MemSize
    /\ RelocateCall("move_relocate_range", << kind, first, last, d_first >>,
                    IF kind = "pointer"
                    THEN [pc |-> "relocated", memory |-> memmove(relocated.memory, d_first, first, last - first), result |-> d_first + (last - first)]
                    ELSE ForwardLoop(relocated.memory, first, last, d_first, kind = "iterator"))

\* move_relocate_range_backward(first, last, d_last)
move_relocate_range_backward(kind, first, last, d_last) ==
    /\ first <= last
    /\ d_last - (last - first) >= 0
    /\ RelocateCall("move_relocate_range_backward", << kind, first, last, d_last >>,
                    IF kind = "pointer"
                    THEN [pc |-> "relocated", memory |-> memmove(relocated.memory, d_last - (last - first), first, last - first), result |-> d_last - (last - first)]
                    ELSE BackwardLoop(relocated.memory, first, last, d_last, kind = "iterator"))

\* The caller fills the array with objects again.
construct_objects ==
    /\ relocated.pc = "relocated"
    /\ relocated' = ConstructedObjects
    /\ last_call' = Call("construct_objects", << >>, "ok")
    /\ backend' = << >>
    /\ UNCHANGED << aborted, fields, attached, earlier_objects, mips_fields, list_fields >>

NextRelocate ==
    \/ \E kind \in IteratorKinds, first \in 0..MemSize, last \in 0..MemSize, d_first \in 0..MemSize : move_relocate_range(kind, first, last, d_first)
    \/ \E kind \in IteratorKinds, first \in 0..MemSize, last \in 0..MemSize, d_last \in 0..MemSize : move_relocate_range_backward(kind, first, last, d_last)
    \/ construct_objects

SpecRelocate == Init /\ [][NextRelocate]_vars

(* ------------------------------ properties ---------------------------- *)
BeginOps == {"begin_render_pass", "begin_compute_pass", "begin_copy_pass"}
EndOps == {"end_render_pass", "end_compute_pass", "end_copy_pass"}
RenderOps ==
    {"set_graphics_pipeline_layout", "set_graphics_pipeline_state", "set_vertex_buffers",
     "set_index_buffer", "set_graphics_descriptor_set", "set_graphics_descriptor_sets",
     "set_viewport", "set_viewports", "set_scissor_rect", "set_scissor_rects",
     "set_blend_factor", "set_stencil_ref", "draw", "draw_indexed", "draw_instanced",
     "draw_indexed_instanced"}
ComputeOps ==
    {"set_compute_pipeline_layout", "set_compute_pipeline_state",
     "set_compute_descriptor_set", "dispatch"}
CopyOps ==
    {"copy_resource", "copy_buffer", "copy_texture", "copy_buffer_to_texture",
     "copy_texture_to_buffer"}
IndexedDrawOps == {"draw_indexed", "draw_indexed_instanced"}

AnyPassOpen == m_render \/ m_compute \/ m_blit
NumOpenPasses == Cardinality({e \in {1, 2, 3} : encoders[e]})
PassState ==
    IF m_render THEN "RenderPass"
    ELSE IF m_compute THEN "ComputePass"
    ELSE IF m_blit THEN "CopyPass"
    ELSE "Idle"
PassOf(op) ==
    IF op \in RenderOps \cup {"begin_render_pass", "end_render_pass"} THEN "RenderPass"
    ELSE IF op \in ComputeOps \cup {"begin_compute_pass", "end_compute_pass"} THEN "ComputePass"
    ELSE IF op \in CopyOps \cup {"begin_copy_pass", "end_copy_pass"} THEN "CopyPass"
    ELSE "Idle"
Rejected == last_call.status = "assert_fail"

\* C1: at most one of the render, compute and copy encoders is non-null after any
\* call, and a begin_*_pass called while any pass is open fails its check and
\* opens nothing.
C1_OnePassAtATime ==
    [][ /\ NumOpenPasses' <= 1
        /\ (last_call'.op \in BeginOps /\ AnyPassOpen)
              => (Rejected' /\ aborted' /\ UNCHANGED encoders) ]_vars
\* A begin_compute_pass inside an open render pass was rejected.
C1_Witness ==
    /\ last_call.op = "begin_compute_pass"
    /\ Rejected
    /\ m_render /\ ~m_compute

\* C2: after a successful reset() the command buffer is Idle (every begin_*_pass
\* passes its check), whatever pass was open before.
C2_ResetForcesIdle ==
    (last_call.op = "reset" /\ last_call.status = "ok") => ~AnyPassOpen

\* C3: the retain list is the sequence of objects attached since creation or the
\* last reset: attach_device_object appends its argument, reset empties the list,
\* every other operation leaves it alone.
C3_RetainList ==
    [][ /\ m_objs' = attached'
        /\ last_call'.op = "attach_device_object"
              => m_objs' = Append(m_objs, last_call'.args[1])
        /\ last_call'.op = "reset" => m_objs' = << >>
        /\ last_call'.op \notin {"attach_device_object", "reset"} => m_objs' = m_objs ]_vars
\* Two different objects were attached, in order.
C3_Witness ==
    /\ last_call.op = "attach_device_object"
    /\ m_objs = << "obj_b", "obj_a" >>

\* C4: a render, compute or copy command is accepted only while the pass of its
\* kind is open; in Idle or in another pass it fails its check, issues nothing to
\* the backend and changes no field.
C4_CommandsNeedTheirPass ==
    [][ last_call'.op \in RenderOps \cup ComputeOps \cup CopyOps
           => /\ last_call'.status = "ok" => PassState = PassOf(last_call'.op)
              /\ PassState # PassOf(last_call'.op)
                    => (Rejected' /\ backend' = << >> /\ UNCHANGED fields) ]_vars
\* A dispatch inside a render pass was rejected.
C4_Witness ==
    /\ last_call.op = "dispatch"
    /\ Rejected
    /\ PassState = "RenderPass"

\* C5: end_X is accepted only while pass X is open and leaves the command buffer
\* Idle; the pass state moves only Idle -> X by begin_X and X -> Idle by end_X.
C5_PassStateMachine ==
    [][ /\ last_call'.op \in EndOps
           => /\ last_call'.status = "ok"
                    => (PassState = PassOf(last_call'.op) /\ PassState' = "Idle")
              /\ PassState # PassOf(last_call'.op) => (Rejected' /\ UNCHANGED encoders)
        /\ PassState' # PassState
           => \/ /\ PassState = "Idle"
                 /\ last_call'.op \in BeginOps
                 /\ PassState' = PassOf(last_call'.op)
              \/ /\ PassState' = "Idle"
                 /\ last_call'.op \in EndOps
                 /\ PassState = PassOf(last_call'.op) ]_vars
\* A compute pass was opened and closed again.
C5_Witness ==
    /\ last_call.op = "end_compute_pass"
    /\ last_call.status = "ok"
    /\ PassState = "Idle"

\* C6: the pass state changes only through begin_*_pass, end_*_pass and reset; every
\* other operation leaves the three encoders as they are.
C6_OnlyBeginEndChangePass ==
    [][ last_call'.op \notin BeginOps \cup EndOps \cup {"reset"} => UNCHANGED encoders ]_vars
\* A barrier was recorded inside a compute pass, which is still open.
C6_Witness ==
    /\ last_call.op = "resource_barrier"
    /\ Len(last_call.args[2]) > 0
    /\ PassState = "ComputePass"

\* start_index_location * k as an exact 64-bit value << bits 32.., high, low >>.
ExactProduct(x, k) ==
    LET low == x[2] * k
        high == x[1] * k + (low \div W16)
    IN  << high \div W16, high % W16, low % W16 >>
StartIndexOf(call) == IF call.op = "draw_indexed" THEN call.args[2] ELSE call.args[3]

\* C7: the index-buffer byte offset an indexed draw passes to the backend is
\* start_index_location * 2 for r16_uint and * 4 for r32_uint, for every 32-bit
\* start_index_location.
C7_IndexByteOffset ==
    ( /\ last_call.op \in IndexedDrawOps
      /\ last_call.status = "ok"
      /\ m_index_buffer_view.buffer # NULL )
    => backend[1].args[5] =
          ExactProduct(StartIndexOf(last_call),
                       IF m_index_buffer_view.format = "r16_uint" THEN 2 ELSE 4)

\* C8: an indexed draw that reaches the backend carries the buffer of the most
\* recent set_index_buffer call, never a null index buffer.
C8_IndexedDrawHasIndexBuffer ==
    ( /\ last_call.op \in IndexedDrawOps
      /\ backend # << >> )
    => ( /\ backend[1].args[4] # NULL
         /\ backend[1].args[4] = m_index_buffer_view.buffer )

\* C9: copy_resource(dst, src) issues one buffer copy of min(dst.size, src.size)
\* bytes from offset 0 to offset 0 when both are buffers, one whole-texture copy
\* when both are textures, and nothing otherwise; it changes no field.
C9_CopyResource ==
    [][ (last_call'.op = "copy_resource" /\ last_call'.status = "ok")
           => LET dst == last_call'.args[1]
                  src == last_call'.args[2]
              IN  /\ UNCHANGED fields
                  /\ (dst \in Buffers /\ src \in Buffers)
                        => /\ Len(backend') = 1
                           /\ backend'[1].fn = "copyFromBuffer"
                           /\ backend'[1].args[1] = src
                           /\ backend'[1].args[2] = 0
                           /\ backend'[1].args[3] = dst
                           /\ backend'[1].args[4] = 0
                           /\ backend'[1].args[5] <= BufferSize[dst]
                           /\ backend'[1].args[5] <= BufferSize[src]
                           /\ backend'[1].args[5] \in {BufferSize[dst], BufferSize[src]}
                  /\ (dst \in Textures /\ src \in Textures)
                        => backend' = << Mtl("copyFromTexture", << src, dst >>) >>
                  /\ ((dst \in Buffers) # (src \in Buffers)) => backend' = << >> ]_vars
\* A 64-byte buffer was copied into a 100-byte buffer: 64 bytes.
C9_Witness ==
    /\ last_call.op = "copy_resource"
    /\ last_call.status = "ok"
    /\ last_call.args = << "buf_a", "buf_b" >>
    /\ backend[1].args[5] = 64

\* What before = automatic resolves to: the tracked state of the subresource.
ResolveAutomatic(texture, subresource) ==
    m_global_states[texture][subresource.mip_slice].m_image_layout

\* C10: once resource_barrier has recorded a transition of a subresource to state
\* S, the tracked state that before = automatic resolves to is S.
C10_BarrierRoundTrip ==
    last_call.op = "resource_barrier"
       => \A i \in 1..Len(last_call.args[2]) :
             LET barrier == last_call.args[2][i]
             IN  ResolveAutomatic(barrier.texture, barrier.subresource)
                    = encode_image_layout(barrier.after)

\* The subresources of `texture` a call to d3d12_resource_barrier names.
NamedSubresources(call, texture) ==
    IF call.op = "d3d12_resource_barrier"
    THEN { 1 + calc_subresource_index(call.args[1][i].subresource.mip_slice, call.args[1][i].subresource.array_slice, TextureDesc[call.args[1][i].texture].mip_levels) :
             i \in { k \in 1..Len(call.args[1]) : call.args[1][k].texture = texture } }
    ELSE IF call.op = "generate_mipmaps" /\ call.args[1] = texture
    THEN 1..count_subresources(TextureDesc[texture])
    ELSE { }

\* After generate_mipmaps every mip but the last is tracked as shader_read_cs and
\* the last mip as shader_write_cs.
C11_MipStates ==
    (last_call.op = "generate_mipmaps" /\ last_call.status = "ok")
       => LET texture == last_call.args[1]
              N == TextureDesc[texture].mip_levels
          IN  /\ \A mip \in 0..(N - 2) :
                     m_states[texture][1 + calc_subresource_index(mip, 0, N)] = encode_resource_state("shader_read_cs")
              /\ m_states[texture][1 + calc_subresource_index(N - 1, 0, N)] = encode_resource_state("shader_write_cs")

\* A barrier changes the tracked state of no subresource it does not name.
C11_OnlyNamedMips ==
    \A texture \in Textures : \A index \in 1..count_subresources(TextureDesc[texture]) :
        m_states'[texture][index] # m_states[texture][index]
           => index \in NamedSubresources(last_call', texture)

RECURSIVE SumCounts(_)
SumCounts(counts) == IF counts = << >> THEN 0 ELSE Head(counts) + SumCounts(Tail(counts))

\* The counts of the bindings of a layout that are fixed by the layout: all of
\* them, but the last one under variable_descriptors.
FixedBindingCounts(layout_desc) ==
    LET counts == [i \in 1..Len(layout_desc.bindings) |-> layout_desc.bindings[i].num_descs]
    IN  IF "variable_descriptors" \in layout_desc.flags
        THEN SubSeq(counts, 1, Len(counts) - 1)
        ELSE counts

\* C12: a descriptor set created from a layout with variable_descriptors and
\* num_variable_descriptors = V reserves (sum of the fixed binding counts) + V
\* argument slots of 8 bytes; without the flag V is ignored and the layout's
\* argument count is reserved.
C12_ArgumentSlots ==
    (last_call.op = "DescriptorSet_init" /\ last_call.status = "ok")
       => LET desc == last_call.args[1]
              layout_desc == DescriptorSetLayoutDescs[desc.layout]
              slots == IF "variable_descriptors" \in layout_desc.flags
                       THEN SumCounts(FixedBindingCounts(layout_desc)) + desc.num_variable_descriptors
                       ELSE DescriptorSetLayouts[desc.layout].m_num_arguments
          IN  /\ ~m_argument_buffer.null
              /\ m_argument_buffer.length = 8 * slots
              /\ DOMAIN m_argument_buffer.contents = 0..(slots - 1)
              /\ backend = << Mtl("newBuffer", << 8 * slots, "upload" >>) >>

\* A set was created with 5 variable descriptors from the layout with the flag.
C12_Witness ==
    /\ last_call = Call("DescriptorSet_init", << [layout |-> "layout_variable", num_variable_descriptors |-> 5] >>, "ok")
    /\ m_argument_buffer.length = 64

\* The first binding (from 1) of the layout with the slot, or 0 if there is none.
FirstBindingWithSlot(layout, slot) ==
    LET matches == { b \in 1..Len(layout.m_bindings) : layout.m_bindings[b].binding_slot = slot }
    IN  IF matches = { } THEN 0 ELSE CHOOSE b \in matches : \A c \in matches : b <= c

\* The first write of the batch (from 1) the layout does not resolve, or the
\* length of the batch plus one.
FirstUnresolved(layout, writes) ==
    LET unresolved == { n \in 1..Len(writes) : FirstBindingWithSlot(layout, writes[n].binding_slot) = 0 }
    IN  IF unresolved = { } THEN Len(writes) + 1 ELSE CHOOSE n \in unresolved : \A k \in unresolved : n <= k

\* The argument slots a resolved write targets.
TargetSlots(layout, write) ==
    { layout.m_argument_offsets[FirstBindingWithSlot(layout, write.binding_slot) - 1] + write.first_array_index + i :
         i \in 0..(Len(ViewsOf(write)) - 1) }

C13_Resolution ==
    last_call'.op = "update_descriptors"
       => LET layout == DescriptorSetLayouts[m_layout]
              writes == last_call'.args[1]
              failing == FirstUnresolved(layout, writes)
              before == m_argument_buffer.contents
              after == m_argument_buffer'.contents
          IN  /\ last_call'.status = "bad_arguments" => failing <= Len(writes)
              /\ failing <= Len(writes) => last_call'.status \in {"bad_arguments", "bad_platform_call"}
              /\ \A slot \in DOMAIN before :
                    after[slot] # before[slot] => \E n \in 1..(failing - 1) : slot \in TargetSlots(layout, writes[n])
              /\ last_call'.status \in {"ok", "bad_arguments"}
                    => \A n \in 1..(failing - 1) : \A slot \in TargetSlots(layout, writes[n]) :
                          after[slot].kind # "none"
              /\ last_call'.status \in {"ok", "bad_arguments"}
                    => \A n \in 1..(failing - 1) : \A i \in 1..Len(writes[n].buffer_views) :
                          m_bindings'[FirstBindingWithSlot(layout, writes[n].binding_slot)].m_resources[writes[n].first_array_index + i - 1]
                             = writes[n].buffer_views[i].buffer

\* C13: update_descriptors resolves each write's binding_slot to the first layout
\* binding with that slot; a write whose slot matches no binding makes the call
\* fail with BadArguments, and that write stores nothing in the argument buffer.
C13_UnresolvedSlot == [][C13_Resolution]_vars

\* A batch whose second write is unresolved has failed after its first write.
C13_Witness ==
    /\ last_call = Call("update_descriptors", << << UniformWrite, UnresolvedWrite >> >>, "bad_arguments")
    /\ m_argument_buffer.contents[0].kind = "address"

BufferTypes == {"uniform_buffer_view", "read_buffer_view", "read_write_buffer_view"}

\* The buffer views written by the last call, each with the argument slot it
\* targets, when the call was an update_descriptors that returned ok.
WrittenBufferViews ==
    IF last_call.op = "update_descriptors" /\ last_call.status = "ok"
    THEN LET layout == DescriptorSetLayouts[m_layout]
             writes == last_call.args[1]
         IN  UNION { { [type |-> writes[n].type, view |-> writes[n].buffer_views[i],
                        slot |-> layout.m_argument_offsets[FirstBindingWithSlot(layout, writes[n].binding_slot) - 1] + writes[n].first_array_index + i - 1] :
                          i \in 1..Len(writes[n].buffer_views) } :
                     n \in { k \in 1..Len(writes) : writes[k].type \in BufferTypes } }
    ELSE { }

\* stride = element_size when the view format is unknown, bits_per_pixel / 8 otherwise
Stride(view) == IF view.format = "unknown" THEN view.element_size ELSE bits_per_pixel(view.format) \div 8

\* C14 as stated: for every buffer-typed write (uniform, read, read-write) the
\* address stored is the buffer's base GPU address plus first_element * stride.
C14_AddressIsElementTimesStride ==
    \A w \in WrittenBufferViews :
        m_argument_buffer.contents[w.slot] = Argument("address", w.view.buffer, gpuAddress[w.view.buffer] + w.view.first_element * Stride(w.view))

\* C14 as amended: for read and read-write buffer views the address stored is the
\* base GPU address plus first_element * element_size when the format is unknown
\* and plus (bits_per_pixel(format) * first_element) / 8, rounded down, otherwise;
\* for uniform buffer views it is the base GPU address plus first_element.
C14_BufferAddress ==
    \A w \in WrittenBufferViews :
        LET offset == CASE w.type = "uniform_buffer_view" -> w.view.first_element
                        [] w.view.format = "unknown" -> w.view.first_element * w.view.element_size
                        [] OTHER -> (bits_per_pixel(w.view.format) * w.view.first_element) \div 8
        IN  m_argument_buffer.contents[w.slot] = Argument("address", w.view.buffer, gpuAddress[w.view.buffer] + offset)

\* A read buffer write with an untyped view of 4-byte elements and a typed view of
\* a 16-bit format has stored the addresses of element 3 of both.
C14_Witness ==
    /\ last_call.op = "update_descriptors" /\ last_call.status = "ok"
    /\ last_call.args[1][1].type = "read_buffer_view"
    /\ Len(last_call.args[1][1].buffer_views) = 2
    /\ m_argument_buffer.contents[1].value = 4096 + 12
    /\ m_argument_buffer.contents[2].value = 8192 + 6

\* The sampler states the set retains.
RetainedSamplers == { m_samplers[key] : key \in DOMAIN m_samplers }

\* C15: the sampler cache holds one live sampler object per (binding slot, array
\* index) pair, so the sampler most recently written to a pair, whose resource id
\* is in that pair's argument slot, is still retained by the set.
C15_SamplerPerPair ==
    \A slot \in DOMAIN m_argument_buffer.contents :
        m_argument_buffer.contents[slot].kind = "sampler"
           => m_argument_buffer.contents[slot].value \in RetainedSamplers

\* C16: while a submitted command buffer that references a descriptor set has not
\* completed, every resource that was bound in the set when the command naming it
\* was recorded has a positive reference count.
C16_BoundResourcesAlive ==
    [][(m_buffer = "committed" /\ m_buffer' = "committed")
          => \A resource \in recorded : RefCount(resource) > 0 => RefCount(resource)' > 0]_vars

\* C17: the native heap denies buffers iff the buffer flag is absent, render-target
\* and depth-stencil textures iff texture_rt_ds is absent, and other textures iff
\* texture_non_rt_ds is absent; a placement succeeds only in a heap created with
\* the usage flag of the resource's kind.
C17_HeapDenyFlags ==
    ~m_heap.null
       => /\ ("DENY_BUFFERS" \in m_heap.Flags) <=> ("buffer" \notin m_heap_usages)
          /\ ("DENY_RT_DS_TEXTURES" \in m_heap.Flags) <=> ("texture_rt_ds" \notin m_heap_usages)
          /\ ("DENY_NON_RT_DS_TEXTURES" \in m_heap.Flags) <=> ("texture_non_rt_ds" \notin m_heap_usages)
          /\ m_heap.Flags \subseteq {"DENY_BUFFERS", "DENY_RT_DS_TEXTURES", "DENY_NON_RT_DS_TEXTURES"}
          /\ last_call.op = "new_resource"
                => LET desc == last_call.args[2]
                       needed == CASE desc.type = "buffer" -> "buffer"
                                   [] "render_target" \in desc.usages \/ "depth_stencil" \in desc.usages -> "texture_rt_ds"
                                   [] OTHER -> "texture_non_rt_ds"
                   IN  (last_call.status = "ok") <=> (needed \in m_heap_usages)

\* A render target was refused by a heap created for buffers and sampled textures.
C17_Witness ==
    /\ m_heap_usages = {"buffer", "texture_non_rt_ds"}
    /\ m_heap.Flags = {"DENY_RT_DS_TEXTURES"}
    /\ last_call.op = "new_resource"
    /\ "render_target" \in last_call.args[2].usages
    /\ last_call.status = "bad_arguments"

\* The MTL::RenderPassDescriptor of the begin_render_pass call that just returned.
PassDescriptor == backend[1].args[1]

\* The first attachment begin_render_pass binds: color attachment 0 if it has a
\* texture, otherwise the depth-stencil attachment.
FirstBoundAttachment(desc) ==
    IF desc.color_attachments[1].texture # NULL
    THEN desc.color_attachments[1].texture
    ELSE desc.depth_stencil_attachment.texture

\* C18: begin_render_pass sets the render-target width and height to the
\* dimensions of the first bound attachment's texture, whatever the sizes of the
\* other attachments.
C18_FirstAttachmentSize ==
    (last_call.op = "begin_render_pass" /\ last_call.status = "ok")
       => LET first == FirstBoundAttachment(last_call.args[1])
          IN  first # NULL
                 => /\ PassDescriptor.renderTargetWidth = TextureWidth[first]
                    /\ PassDescriptor.renderTargetHeight = TextureHeight[first]

ResolveStoreActions == {"StoreActionStoreAndMultisampleResolve", "StoreActionMultisampleResolve"}
PlainStoreActions == {"StoreActionStore", "StoreActionDontCare"}

\* Color attachment i (from 1) of the descriptor against attachment i of the
\* render pass description.
ResolveMatches(desc, d, i) ==
    LET src == desc.color_attachments[i]
        resolve_src == desc.resolve_attachments[i]
        attachment == d.colorAttachments[i]
    IN  IF resolve_src.texture # NULL
        THEN /\ attachment.storeAction \in ResolveStoreActions
             /\ (attachment.storeAction = "StoreActionStoreAndMultisampleResolve") <=> (src.store_op = "store")
             /\ attachment.resolveTexture = resolve_src.texture
             /\ attachment.resolveLevel = resolve_src.mip_slice
             /\ attachment.resolveSlice = resolve_src.array_slice
        ELSE /\ attachment.storeAction \in PlainStoreActions
             /\ (attachment.storeAction = "StoreActionStore") <=> (src.store_op = "store")
             /\ attachment.resolveTexture = NULL

\* C19: a bound color attachment gets the store-with-resolve action and the
\* resolve texture, level and slice iff its resolve attachment names a texture,
\* otherwise the plain store or discard action of its StoreOp and no resolve
\* target; the depth and stencil attachments never resolve.
C19_ResolveStoreAction ==
    (last_call.op = "begin_render_pass" /\ last_call.status = "ok")
       => LET desc == last_call.args[1]
          IN  /\ \A i \in 1..Len(PassDescriptor.colorAttachments) : ResolveMatches(desc, PassDescriptor, i)
              /\ desc.depth_stencil_attachment.texture # NULL
                    => /\ PassDescriptor.depthAttachment.storeAction \in PlainStoreActions
                       /\ PassDescriptor.stencilAttachment.storeAction \in PlainStoreActions
                       /\ (PassDescriptor.depthAttachment.storeAction = "StoreActionStore")
                             <=> (desc.depth_stencil_attachment.depth_store_op = "store")

\* A pass began with one resolving and one plain color attachment and a depth-stencil attachment.
C19_Witness ==
    /\ last_call.op = "begin_render_pass"
    /\ last_call.status = "ok"
    /\ Len(PassDescriptor.colorAttachments) = 2
    /\ PassDescriptor.colorAttachments[1].storeAction = "StoreActionStoreAndMultisampleResolve"
    /\ PassDescriptor.colorAttachments[1].resolveTexture = "tex_b"
    /\ PassDescriptor.colorAttachments[1].resolveLevel = 1
    /\ PassDescriptor.colorAttachments[2].storeAction = "StoreActionDontCare"
    /\ PassDescriptor.colorAttachments[2].resolveTexture = NULL
    /\ last_call.args[1].depth_stencil_attachment.texture # NULL

\* The owning queue families of a resource: of the buffer, or of every
\* subresource of the texture that has one.
OwningFamilies(resource) ==
    IF resource \in Buffers
    THEN { m_owning_queue_family_index[resource] } \ { U32_MAX }
    ELSE { m_global_states[resource][s].m_owning_queue_family_index : s \in Subresources } \ { U32_MAX }

\* The owner of what a barrier names, before the call.
OwnerBefore(buffer_barriers, texture_barriers) ==
    IF Len(buffer_barriers) > 0
    THEN m_owning_queue_family_index[buffer_barriers[1].buffer]
    ELSE m_global_states[texture_barriers[1].texture][texture_barriers[1].subresource.mip_slice].m_owning_queue_family_index

\* The owner of what a barrier names, after the call.
OwnerAfter(buffer_barriers, texture_barriers) ==
    IF Len(buffer_barriers) > 0
    THEN m_owning_queue_family_index'[buffer_barriers[1].buffer]
    ELSE m_global_states'[texture_barriers[1].texture][texture_barriers[1].subresource.mip_slice].m_owning_queue_family_index

\* A resource nothing has used has no owner; a used one is owned, buffer or
\* subresource, by families that used it, the last user among them.
C20_OwnedByUser ==
    \A resource \in Resources :
        IF last_user[resource] = NULL
        THEN OwningFamilies(resource) = { }
        ELSE last_user[resource] \in OwningFamilies(resource)

\* A barrier recorded on a family other than the owner of what it names comes
\* out as the release on the owning family and the acquire on the recording
\* family, both naming source and destination; any other barrier ignores the
\* queue families. Either way the recording family owns the resource afterwards.
C20_TransferOnCrossing ==
    last_call'.op = "vk_resource_barrier"
       => LET q == last_call'.args[1]
              owner == OwnerBefore(last_call'.args[2], last_call'.args[3])
          IN  /\ OwnerAfter(last_call'.args[2], last_call'.args[3]) = q
              /\ IF owner = U32_MAX \/ owner = q
                 THEN /\ Len(backend') = 1
                      /\ backend'[1].args[1] = q
                      /\ backend'[1].args[2].srcQueueFamilyIndex = VK_QUEUE_FAMILY_IGNORED
                      /\ backend'[1].args[2].dstQueueFamilyIndex = VK_QUEUE_FAMILY_IGNORED
                 ELSE /\ Len(backend') = 2
                      /\ backend'[1].args[1] = owner
                      /\ backend'[2].args[1] = q
                      /\ \A k \in 1..2 : /\ backend'[k].args[2].srcQueueFamilyIndex = owner
                                         /\ backend'[k].args[2].dstQueueFamilyIndex = q

Unused == { resource \in Resources : last_user[resource] = NULL }

\* Every subresource of an unused image is in layout UNDEFINED with no owning
\* queue family, and an unused buffer has no owning queue family.
C21_DeclaredInitialState ==
    \A resource \in Unused :
        IF resource \in Buffers
        THEN m_owning_queue_family_index[resource] = U32_MAX
        ELSE \A s \in Subresources : m_global_states[resource][s] = [m_image_layout |-> "undefined", m_owning_queue_family_index |-> U32_MAX]

\* The first barrier recorded on a resource leaves the declared initial state:
\* the old layout is UNDEFINED and there is no queue family to release from.
C21_FirstUse ==
    last_call'.op = "vk_resource_barrier"
       => LET buffer_barriers == last_call'.args[2]
              texture_barriers == last_call'.args[3]
              named == IF Len(buffer_barriers) > 0 THEN buffer_barriers[1].buffer ELSE texture_barriers[1].texture
          IN  named \in Unused
                 => /\ Len(backend') = 1
                    /\ backend'[1].args[2].srcQueueFamilyIndex = VK_QUEUE_FAMILY_IGNORED
                    /\ backend'[1].args[2].dstQueueFamilyIndex = VK_QUEUE_FAMILY_IGNORED
                    /\ named \in Textures => backend'[1].args[2].oldLayout = "undefined"

\* C21: a resource on which no barrier has been recorded has a defined initial
\* tracked state, the one before = automatic resolves to on first use: image
\* subresources start in layout UNDEFINED with no owning queue family, buffers
\* with no owning queue family.
C21_InitialTrackedState == [] C21_DeclaredInitialState /\ [][C21_FirstUse]_vars

\* tex_a was first used by a barrier that left layout UNDEFINED; tex_b and the
\* buffers are still unused.
C21_Witness ==
    /\ Unused = Resources \ {"tex_a"}
    /\ last_call.op = "vk_resource_barrier"
    /\ backend[1].args[2].oldLayout = "undefined"
    /\ backend[1].args[2].newLayout = "general"
    /\ m_global_states["tex_a"][0].m_image_layout = "general"
    /\ m_global_states["tex_a"][1].m_image_layout = "undefined"

\* GPU execution of the command buffer has finished, successfully or with an error.
Finished == m_buffer \in {"completed", "error"}

\* try_wait can always return, and returns true exactly when execution has finished.
C22_TryWaitPolls ==
    /\ ~aborted => ENABLED try_wait
    /\ last_call.op = "try_wait" => ((last_call.status = "true") <=> Finished)

\* wait on a command buffer has returned only after execution finished.
C22_WaitReturnsFinished ==
    (last_call.op = "wait" /\ m_buffer # "null") => Finished

\* Only reset takes a finished command buffer out of the finished state.
C22_FinishedUntilReset ==
    (Finished /\ last_call'.op # "reset") => Finished'

C23_ConcurrentCreationSafe ==
    /\ ~aborted
    /\ \A t \in Threads : pc[t] = "leaving" => placed[t] \in {"ok", "bad_arguments"}

\* The user cancelled the dialog of the call that just returned.
DialogCancelled ==
    CASE last_call.op = "open_file_dialog" -> last_call.args[2] = Cancelled
      [] last_call.op = "save_file_dialog" -> last_call.args[1] = Cancelled
      [] last_call.op = "open_dir_dialog" ->
            LET result == last_call.args[1]
            IN  /\ ~FAILED(result.CoCreateInstance)
                /\ result.initial_dir = "" \/ ~FAILED(result.SHParseDisplayName)
                /\ result.Show = "ERROR_CANCELLED"
      [] OTHER -> FALSE

\* The dialog of the call that just returned failed in the native API.
DialogFailedNatively ==
    CASE last_call.op = "open_file_dialog" -> last_call.args[2] = DialogFailed
      [] last_call.op = "save_file_dialog" -> last_call.args[1] = DialogFailed
      [] last_call.op = "open_dir_dialog" ->
            LET result == last_call.args[1]
            IN  \/ FAILED(result.CoCreateInstance)
                \/ result.initial_dir # "" /\ FAILED(result.SHParseDisplayName)
                \/ result.Show = "E_FAIL"
                \/ result.Show = "S_OK" /\ (FAILED(result.GetResult) \/ FAILED(result.GetDisplayName))
      [] OTHER -> FALSE

\* C24: a dialog the user cancelled returns Interrupted and a dialog that failed
\* in the native API returns BadPlatformCall, for open_file_dialog,
\* save_file_dialog and open_dir_dialog; a cancelled dialog is never reported
\* as BadPlatformCall.
C24_CancelIsInterrupted ==
    (last_call.op \in {"open_file_dialog", "save_file_dialog", "open_dir_dialog"} /\ last_call.status \in {"ok", "interrupted", "bad_platform_call"})
       => /\ DialogCancelled => last_call.status = "interrupted"
          /\ DialogFailedNatively => last_call.status = "bad_platform_call"

\* C30: open_file_dialog terminates for every dialog result: with n >= 2 files
\* selected the loop over the name list ends after the last name, so that no
\* more than the n selected names are read and collected, and the n paths are
\* returned.
C30_LoopEndsAfterLastName ==
    dialog.pc = "loop"
       => /\ Len(dialog.paths) <= Len(dialog.files)
          /\ dialog.wdir_cur <= Len(dialog.files) + 2
          /\ ~aborted

\* C25: set_graphics_descriptor_sets(start_index, sets) accepts exactly the calls
\* whose indices start_index .. start_index + |sets| - 1 all lie in [0, 16), the
\* range set_graphics_descriptor_set accepts for one index; a range ending at
\* index 15 is accepted.
C25_SameIndexRange ==
    /\ (last_call.op = "set_graphics_descriptor_set" /\ m_render)
          => ((last_call.status = "ok") <=> (last_call.args[1] \in 0..(MaxDescriptorSets - 1)))
    /\ (last_call.op = "set_graphics_descriptor_sets" /\ m_render)
          => LET start_index == last_call.args[1]
                 indices == start_index..(start_index + Len(last_call.args[2]) - 1)
             IN  (last_call.status = "ok") <=> (indices \subseteq 0..(MaxDescriptorSets - 1))

(* --------------- descriptor writes and the set's storage --------------- *)
\* writes that index past a binding, name a binding of another type or reach the
\* variable-count binding, next to writes that stay inside their binding
BoundsWrites ==
    [layout_fixed |->
        { UniformWrite,
          WriteDescriptorSet(1, 1, "read_buffer_view", << BufferViewDesc("buf_a", 3, 4, 4, "unknown"), BufferViewDesc("buf_b", 3, 4, 0, "r16_uint") >>, << >>, << >>),
          WriteDescriptorSet(4, 0, "read_buffer_view", << BufferViewDesc("buf_a", 0, 4, 4, "unknown") >>, << >>, << >>),
          WriteDescriptorSet(4, 0, "sampler", << >>, << >>, << LinearSampler >>),
          WriteDescriptorSet(5, 1, "sampler", << >>, << >>, << LinearSampler >>) },
     layout_variable |->
        { UniformWrite,
          WriteDescriptorSet(1, 1, "read_write_texture_view", << >>, << TextureViewDesc("tex_a", "unknown", 0, 1), TextureViewDesc("tex_b", "unknown", 0, 1) >>, << >>),
          WriteDescriptorSet(2, 0, "read_texture_view", << >>, << TextureViewDesc("tex_a", "unknown", 0, 1) >>, << >>),
          WriteDescriptorSet(2, 4, "read_texture_view", << >>, << TextureViewDesc("tex_a", "unknown", 0, 1), TextureViewDesc("tex_b", "unknown", 1, 1) >>, << >>) }]

NextBounds ==
    \/ \E desc \in DescriptorSetDescs, created \in BOOLEAN :
           DescriptorSet_init(desc, created) /\ UNCHANGED << outside_sets, lifetime >>
    \/ /\ ~m_argument_buffer.null
       /\ \E write \in BoundsWrites[m_layout], created \in Created :
              update_descriptors(<< write >>, created) /\ UNCHANGED outside_sets

SpecBounds == Init /\ [][NextBounds]_vars

\* The number of descriptors of a binding of the set: the layout's num_descs, and
\* for the variable-count binding what the set's argument buffer has beyond the
\* fixed bindings.
BindingCount(binding_index) ==
    LET layout == DescriptorSetLayouts[m_layout]
    IN  IF "variable_descriptors" \in layout.m_flags /\ binding_index = Len(layout.m_bindings) - 1
        THEN (m_argument_buffer.length \div SizeOfU64) - layout.m_num_arguments
        ELSE layout.m_bindings[binding_index + 1].num_descs

\* C26: update_descriptors never writes outside the storage of the binding it
\* resolved: every argument slot written lies in [argument_offset[b],
\* argument_offset[b] + count of b) and every record index written is below the
\* length of the binding's m_resources, whatever the write's type and also for
\* the variable-count binding.
C26_WritesInsideBinding ==
    last_call.op = "update_descriptors" =>
        \A access \in written :
            /\ access.slot >= DescriptorSetLayouts[m_layout].m_argument_offsets[access.binding_index]
            /\ access.slot < DescriptorSetLayouts[m_layout].m_argument_offsets[access.binding_index] + BindingCount(access.binding_index)
            /\ access.record # NoRecord => access.record < Cardinality(DOMAIN m_bindings[access.binding_index + 1].m_resources)

(* ------------------------- a failing batch ----------------------------- *)
\* The write names a binding slot of the set's layout.
Resolved(write) ==
    FindBinding(DescriptorSetLayouts[m_layout].m_bindings, write.binding_slot) < Len(DescriptorSetLayouts[m_layout].m_bindings)

\* The store that element i of a resolved write makes.
AccessOf(write, i) ==
    LET binding_index == FindBinding(DescriptorSetLayouts[m_layout].m_bindings, write.binding_slot)
    IN  Access(binding_index,
               DescriptorSetLayouts[m_layout].m_argument_offsets[binding_index] + write.first_array_index + i,
               IF write.type = "sampler" THEN NoRecord ELSE write.first_array_index + i)

\* The buffer or texture that element i of a write names.
ResourceOf(write, i) ==
    CASE write.type \in {"uniform_buffer_view", "read_buffer_view", "read_write_buffer_view"} -> write.buffer_views[i + 1].buffer
      [] write.type \in {"read_texture_view", "read_write_texture_view"} -> write.texture_views[i + 1].texture
      [] OTHER -> "sampler"

\* Element i of a write needs an object from the device, whose creation can fail.
NeedsNativeObject(write, i) ==
    CASE write.type \in {"uniform_buffer_view", "read_buffer_view", "read_write_buffer_view"} -> FALSE
      [] write.type \in {"read_texture_view", "read_write_texture_view"} -> require_view_object(write.texture_views[i + 1])
      [] OTHER -> TRUE

\* The elements (write n, index i) of the batch before element j of write k.
ElementsBefore(writes, k, j) ==
    { e \in { << n, i >> : n \in 1..Len(writes), i \in 0..MaxColorAttachments } :
        /\ e[1] <= k
        /\ e[2] < (IF e[1] = k THEN j ELSE Len(ViewsOf(writes[e[1]]))) }

\* The step applied the elements before element j of write k, and nothing else
\* of the batch: the argument slot of each names its resource, the record and the
\* sampler cache hold it, and every other slot, record and cache entry is as before.
AppliedUpTo(writes, k, j) ==
    LET elements == ElementsBefore(writes, k, j)
        stores == { AccessOf(writes[e[1]], e[2]) : e \in elements }
        keys == { writes[e[1]].binding_slot + writes[e[1]].first_array_index + e[2] : e \in { f \in elements : writes[f[1]].type = "sampler" } }
    IN  /\ \A e \in elements : Resolved(writes[e[1]])
        /\ written' = stores
        /\ \A e \in elements :
              LET access == AccessOf(writes[e[1]], e[2])
              IN  /\ m_argument_buffer'.contents[access.slot].id = ResourceOf(writes[e[1]], e[2])
                  /\ access.record # NoRecord => m_bindings'[access.binding_index + 1].m_resources[access.record] = ResourceOf(writes[e[1]], e[2])
        /\ \A slot \in DOMAIN m_argument_buffer.contents :
              slot \notin { access.slot : access \in stores } => m_argument_buffer'.contents[slot] = m_argument_buffer.contents[slot]
        /\ \A b \in 1..Len(m_bindings) : \A record \in DOMAIN m_bindings[b].m_resources :
              Access(b - 1, DescriptorSetLayouts[m_layout].m_argument_offsets[b - 1] + record, record) \notin stores
                 => m_bindings'[b].m_resources[record] = m_bindings[b].m_resources[record]
        /\ DOMAIN m_samplers' = (DOMAIN m_samplers) \cup keys
        /\ \A key \in (DOMAIN m_samplers) \ keys : m_samplers'[key] = m_samplers[key]

\* The error of element j of write k: an unresolved slot, or a native object
\* the device did not create.
ErrorOf(writes, k, j) ==
    IF ~Resolved(writes[k]) THEN "bad_arguments"
    ELSE IF j < Len(ViewsOf(writes[k])) /\ NeedsNativeObject(writes[k], j) THEN "bad_platform_call"
    ELSE "ok"

\* C27 as stated: update_descriptors applies a batch in order and stops at the
\* first failing write; the writes before it stay applied to the argument buffer,
\* the records and the sampler cache, the failing write and the later ones are
\* not applied at all, and the failing write's error is returned.
C27_FailingWriteNotApplied ==
    [][last_call'.op = "update_descriptors" /\ last_call'.status \in {"bad_arguments", "bad_platform_call"}
         => \E k \in 1..Len(last_call'.args[1]) :
               /\ AppliedUpTo(last_call'.args[1], k, 0)
               /\ \E j \in 0..Len(ViewsOf(last_call'.args[1][k])) : last_call'.status = ErrorOf(last_call'.args[1], k, j)]_vars

\* C27 (amended): update_descriptors applies a batch in order and stops at the
\* first failing element: the writes before the failing write and the elements
\* of the failing write before the failing one stay applied, the failing element
\* and everything after it is not applied, and the failing element's error is
\* returned; a batch that returns ok is applied whole.
C27_BatchStep ==
    last_call'.op = "update_descriptors" /\ last_call'.status # "crash"
       => LET writes == last_call'.args[1]
          IN  IF last_call'.status = "ok"
              THEN AppliedUpTo(writes, Len(writes), Len(ViewsOf(writes[Len(writes)])))
              ELSE \E k \in 1..Len(writes) : \E j \in 0..Len(ViewsOf(writes[k])) :
                      /\ AppliedUpTo(writes, k, IF Resolved(writes[k]) THEN j ELSE 0)
                      /\ last_call'.status = ErrorOf(writes, k, j)
C27_StopsAtFirstFailure == [][C27_BatchStep]_vars

\* A batch failed at the second element of its second write: the first write
\* and the first element of the second are in the argument buffer.
C27_Witness ==
    /\ last_call = Call("update_descriptors", << << UniformWrite, TwoViewWrite >> >>, "bad_platform_call")
    /\ m_argument_buffer.contents[0].kind = "address"
    /\ m_argument_buffer.contents[1].id = "tex_a"
    /\ m_argument_buffer.contents[2] = EmptyArgument

(* --------------------- color attachments of a pass --------------------- *)
\* The index of the first color attachment without a texture, or the number of
\* color attachments when every one has a texture.
FirstEmptySlot(desc) ==
    CHOOSE k \in 0..MaxColorAttachments :
        /\ k = MaxColorAttachments \/ desc.color_attachments[k + 1].texture = NULL
        /\ \A i \in 0..(k - 1) : desc.color_attachments[i + 1].texture # NULL

\* C28: begin_render_pass binds color attachments in index order and stops at
\* the first slot whose texture is null: exactly the attachments 0..k-1 before
\* the first empty slot k are bound, at most 8, and an attachment set at an index
\* above an empty slot is not bound.
C28_BoundUpToFirstEmpty ==
    (last_call.op = "begin_render_pass" /\ last_call.status = "ok")
       => LET desc == last_call.args[1]
              k == FirstEmptySlot(desc)
          IN  /\ Len(PassDescriptor.colorAttachments) = k
              /\ k <= 8
              /\ \A i \in 0..(k - 1) :
                    /\ PassDescriptor.colorAttachments[i + 1].texture = desc.color_attachments[i + 1].texture
                    /\ PassDescriptor.colorAttachments[i + 1].level = desc.color_attachments[i + 1].mip_slice
                    /\ PassDescriptor.colorAttachments[i + 1].slice = desc.color_attachments[i + 1].array_slice

\* A pass began with attachment 0 bound and attachment 2, above the empty slot
\* 1, left out.
C28_Witness ==
    /\ last_call.op = "begin_render_pass"
    /\ last_call.status = "ok"
    /\ last_call.args[1].color_attachments[1].texture = "tex_a"
    /\ last_call.args[1].color_attachments[2].texture = NULL
    /\ last_call.args[1].color_attachments[3].texture = "tex_b"
    /\ Len(PassDescriptor.colorAttachments) = 1
    /\ PassDescriptor.colorAttachments[1].texture = "tex_a"

(* ----------------------- order of the subsystems ----------------------- *)
\* The runtime subsystems and the calls that start and stop each.
Subsystems == {"OS", "memory_check", "error", "name", "type_registry", "thread", "random", "log", "module"}
StartOf(subsystem) == IF subsystem = "OS" THEN "OS::init" ELSE subsystem \o "_init"
StopOf(subsystem) == IF subsystem = "OS" THEN "OS::close" ELSE subsystem \o "_close"

\* The position of a call in a sequence of calls, 0 when it is not there.
PositionOf(call, calls) ==
    IF \E i \in 1..Len(calls) : calls[i] = call
    THEN CHOOSE i \in 1..Len(calls) : calls[i] = call
    ELSE 0

\* C29: Luna::close() stops the subsystems in the reverse of the order in which
\* Luna::init() started them: when A was started before B, B is stopped before
\* A; OS is started first and stopped last.
C29_ReverseShutdown ==
    /\ \A a, b \in Subsystems :
          (/\ PositionOf(StartOf(a), runtime.started) # 0
           /\ PositionOf(StartOf(a), runtime.started) < PositionOf(StartOf(b), runtime.started)
           /\ PositionOf(StopOf(a), runtime.stopped) # 0)
             => /\ PositionOf(StopOf(b), runtime.stopped) # 0
                /\ PositionOf(StopOf(b), runtime.stopped) < PositionOf(StopOf(a), runtime.stopped)
    /\ \A a \in Subsystems :
          PositionOf(StopOf(a), runtime.stopped) # 0 => PositionOf(StartOf(a), runtime.started) # 0
    /\ runtime.started # << >> => runtime.started[1] = "OS::init"
    /\ (runtime.pc = "closed" /\ runtime.cycles > 0)
          => /\ runtime.stopped[Len(runtime.stopped)] = "OS::close"
             /\ \A a \in Subsystems :
                   PositionOf(StartOf(a), runtime.started) # 0 => PositionOf(StopOf(a), runtime.stopped) # 0

\* The runtime built with the memory check was started and closed: all nine
\* subsystems were started and stopped.
C29_Witness ==
    /\ runtime.pc = "closed"
    /\ runtime.cycles > 0
    /\ runtime.memory_check
    /\ \A a \in Subsystems : PositionOf(StopOf(a), runtime.stopped) # 0

(* ------------------- mipmap generation: retained sets ------------------ *)
\* The descriptor set a dispatch at position p of the recorded commands uses:
\* the one of the last set_compute_descriptor_set before it.
BoundAt(p) ==
    LET q == CHOOSE q \in 1..p :
                 /\ mips.calls[q].op = "set_compute_descriptor_set"
                 /\ \A r \in (q + 1)..p : mips.calls[r].op # "set_compute_descriptor_set"
    IN  mips.calls[q].args[2]
RecordedDispatches == { p \in 1..Len(mips.calls) : mips.calls[p].op = "dispatch" }

\* Every dispatch recorded has a descriptor set bound and that set was attached
\* to the command buffer before the dispatch.
C31_AttachedBeforeDispatch ==
    \A p \in RecordedDispatches :
        /\ \E q \in 1..p : mips.calls[q].op = "set_compute_descriptor_set"
        /\ \E q \in 1..(p - 1) : mips.calls[q] = Cmd("attach_device_object", << BoundAt(p) >>)

\* While the GPU runs the submitted commands, the retain list holds the set of
\* every dispatch.
C31_RetainedWhileRunning ==
    mips.gpu = "running" =>
        \A p \in RecordedDispatches : \E i \in 1..Len(mips.m_objs) : mips.m_objs[i] = BoundAt(p)

\* The retain list loses an object only in reset(), after wait() has returned on
\* a finished GPU.
C31_ClearedAfterWait ==
    (\E i \in 1..Len(mips.m_objs) : \A k \in 1..Len(mips'.m_objs) : mips'.m_objs[k] # mips.m_objs[i])
       => /\ mips.pc = "waiting"
          /\ mips.gpu = "completed"
          /\ mips'.m_objs = << >>

\* C31: objects attached during mipmap generation outlive the GPU work: every
\* per-mip descriptor set is attached before the dispatch that uses it, and the
\* retain list is cleared by reset() only after submit() and wait() have
\* returned, so no attached set is released before GPU completion.
C31_SetsOutliveGpuWork ==
    [] (C31_AttachedBeforeDispatch /\ C31_RetainedWhileRunning) /\ [][C31_ClearedAfterWait]_vars

\* The GPU is running two passes whose sets are both in the retain list.
C31_Witness ==
    /\ mips.gpu = "running"
    /\ mips.pc = "waiting"
    /\ Cardinality(RecordedDispatches) = 2
    /\ Len(mips.m_objs) = 2

(* ------------------- mipmap generation: thread groups ------------------ *)
\* The dispatches of the generate_mipmaps call in progress or just returned, in
\* order: pass j (from 0) is element j + 1.
DispatchesOfCall == { p \in RecordedDispatches : p > mips.base }
MipPassOf(p) == Cardinality({ q \in DispatchesOfCall : q < p })

\* C32: for every texture size and every destination mip j + 1 the thread-group
\* counts are at least 1 in x and y and cover the destination mip, whose extent
\* is max(width >> (j + 1), 1) by max(height >> (j + 1), 1), with 8x8 threads per
\* group; the extent used for the dispatch is the one written to the constant
\* buffer for the same mip.
C32_GroupsCoverMip ==
    (last_call.op = "generate_mipmaps" /\ last_call.status = "waiting")
       => \A p \in DispatchesOfCall :
             LET desc == last_call.args[1]
                 j == MipPassOf(p)
                 x == mips.calls[p].args[1]
                 y == mips.calls[p].args[2]
             IN  /\ x >= 1 /\ y >= 1
                 /\ 8 * x >= max(desc.width \div (2 ^ (j + 1)), 1)
                 /\ 8 * y >= max(desc.height \div (2 ^ (j + 1)), 1)
                 /\ x = align_upper(mips.constants[BoundAt(p).constants + 1].width, 8) \div 8
                 /\ y = align_upper(mips.constants[BoundAt(p).constants + 1].height, 8) \div 8

(* ------------------- mipmap generation: one mip level ------------------ *)
\* C33: generate_mipmaps on a texture with exactly one mip level (a 2D texture of
\* depth 1, as the function's checks demand) returns success without touching
\* the command buffer: nothing is recorded or attached, and the command buffer
\* is not submitted, waited on or reset.
C33_OneMipStep ==
    (/\ last_call'.op = "generate_mipmaps"
     /\ last_call'.args # << >>
     /\ last_call'.args[1].mip_levels = 1
     /\ last_call'.args[1].type = "tex2d"
     /\ last_call'.args[1].depth = 1)
       => /\ last_call'.status = "ok"
          /\ mips' = mips
          /\ backend' = << >>
          /\ ~aborted'
C33_OneMipUntouched == [][C33_OneMipStep]_vars

\* A one-mip texture was passed with a command buffer that already held
\* commands and attached objects: they are still there.
C33_Witness ==
    /\ last_call.op = "generate_mipmaps" /\ last_call.status = "ok"
    /\ last_call.args # << >>
    /\ last_call.args[1].mip_levels = 1
    /\ Len(mips.calls) > 0
    /\ Len(mips.m_objs) > 0

(* ------------------------- shape draw list: close ---------------------- *)
\* a close() that returned ok
ClosedOk == last_call.op = "close" /\ last_call.status = "ok"
\* the index buffer as the last close() left it
PackedIndexData == backend[3].index_data
\* the vertices and the indices of the draw calls before draw call i (from 1)
RECURSIVE VerticesBefore(_)
VerticesBefore(i) == IF i <= 1 THEN 0 ELSE VerticesBefore(i - 1) + Len(list.m_draw_call_resources[i - 1].vertices)
RECURSIVE IndicesBefore(_)
IndicesBefore(i) == IF i <= 1 THEN 0 ELSE IndicesBefore(i - 1) + Len(list.m_draw_call_resources[i - 1].indices)
\* every local index of every draw call is below the draw call's vertex count
LocalIndicesInRange ==
    \A i \in 1..Len(list.m_draw_calls) : \A k \in 1..Len(list.m_draw_call_resources[i].indices) :
        list.m_draw_call_resources[i].indices[k] < Len(list.m_draw_call_resources[i].vertices)

\* C34: after close() succeeds, base_index of every draw call is the sum of the
\* index counts of the draw calls before it, num_indices is its own index
\* count, every packed index is the local index plus the number of vertices of
\* all earlier draw calls; and when every local index is below its draw call's
\* vertex count, the packed indices of a draw call lie in that draw call's own
\* range of the vertex buffer, below the total vertex count.
C34_PackedIndices ==
    ClosedOk =>
        /\ Len(PackedIndexData) = IndicesBefore(Len(list.m_draw_calls) + 1)
        /\ \A i \in 1..Len(list.m_draw_calls) :
              /\ list.m_draw_calls[i].base_index = IndicesBefore(i)
              /\ list.m_draw_calls[i].num_indices = Len(list.m_draw_call_resources[i].indices)
              /\ \A k \in 1..Len(list.m_draw_call_resources[i].indices) :
                    /\ PackedIndexData[IndicesBefore(i) + k] = list.m_draw_call_resources[i].indices[k] + VerticesBefore(i)
                    /\ LocalIndicesInRange =>
                          /\ PackedIndexData[IndicesBefore(i) + k] >= VerticesBefore(i)
                          /\ PackedIndexData[IndicesBefore(i) + k] < VerticesBefore(i + 1)
                          /\ PackedIndexData[IndicesBefore(i) + k] < VerticesBefore(Len(list.m_draw_calls) + 1)
\* a close() of two draw calls that both have indices
C34_Witness ==
    /\ ClosedOk
    /\ Len(list.m_draw_calls) = 2
    /\ LocalIndicesInRange
    /\ list.m_draw_call_resources[1].indices # << >>
    /\ list.m_draw_call_resources[2].indices # << >>
    /\ list.m_draw_calls[2].base_index > 0

(* ------------------------ shape draw list: batching -------------------- *)
\* the state a draw call was recorded with, and the state of the list
DrawCallState(dc) == << dc.atlas, dc.texture, dc.sampler, dc.origin_point, dc.rotation, dc.clip_rect >>
CurrentState(l) == << l.m_atlas, l.m_texture, l.m_sampler, l.m_origin, l.m_rotation, l.m_clip_rect >>
DrawOps == {"draw_shape", "draw_shape_raw"}
\* the vertices a draw adds
DrawnVertices(call) == IF call.op = "draw_shape" THEN 4 ELSE Len(call.args[1])
\* the number of vertices of draw call i (from 1) of l, 0 when it has no resource yet
VerticesOf(l, i) == IF i <= Len(l.m_draw_call_resources) THEN Len(l.m_draw_call_resources[i].vertices) ELSE 0

\* no two draw calls at or after the barrier have equal state
C35_DistinctAfterBarrier ==
    \A i, j \in (list.m_dc_barrier_index + 1)..Len(list.m_draw_calls) :
        i # j => DrawCallState(list.m_draw_calls[i]) # DrawCallState(list.m_draw_calls[j])
\* a draw that returns: the shape goes to one draw call at or after the barrier
\* whose state is the list's state, to the existing one if there is one, and
\* every other draw call keeps its vertices
C35_DrawStep ==
    (last_call'.op \in DrawOps /\ last_call'.status = "ok") =>
        LET t == list'.m_target_dc_index + 1
        IN  /\ t > list'.m_dc_barrier_index
            /\ list'.m_dc_barrier_index = list.m_dc_barrier_index
            /\ t <= Len(list'.m_draw_calls)
            /\ DrawCallState(list'.m_draw_calls[t]) = CurrentState(list)
            /\ VerticesOf(list', t) = VerticesOf(list, t) + DrawnVertices(last_call')
            /\ \A i \in 1..Len(list'.m_draw_call_resources) : i # t => VerticesOf(list', i) = VerticesOf(list, i)
            /\ \A k \in (list.m_dc_barrier_index + 1)..Len(list.m_draw_calls) :
                  DrawCallState(list.m_draw_calls[k]) = CurrentState(list) =>
                      t = k /\ Len(list'.m_draw_calls) = Len(list.m_draw_calls)
\* append_draw_list: the other list's draw calls follow the recorded ones in
\* their order as draw calls of their own, and the barrier is behind them
C35_AppendStep ==
    last_call'.op = "append_draw_list" =>
        LET rhs == last_call'.args[1]
            n == Len(list.m_draw_calls)
        IN  /\ Len(list'.m_draw_calls) = n + Len(rhs.m_draw_calls)
            /\ \A i \in 1..n :
                  /\ DrawCallState(list'.m_draw_calls[i]) = DrawCallState(list.m_draw_calls[i])
                  /\ VerticesOf(list', i) = VerticesOf(list, i)
            /\ \A i \in 1..Len(rhs.m_draw_calls) :
                  /\ DrawCallState(list'.m_draw_calls[n + i]) = DrawCallState(rhs.m_draw_calls[i])
                  /\ list'.m_draw_call_resources[n + i] = rhs.m_draw_call_resources[i]
            /\ list'.m_dc_barrier_index = Len(list'.m_draw_calls)

\* C35: ShapeDrawList batches by state only after the last barrier: no two draw
\* calls at indices >= the barrier index have equal state, a shape drawn with a
\* state equal to one of them is appended to that draw call, no shape is
\* appended to a draw call below the barrier index, and append_draw_list puts
\* the other list's draw calls in their order behind the recorded ones with the
\* barrier after them.
C35_BatchesAfterBarrier == [] C35_DistinctAfterBarrier /\ [][C35_DrawStep /\ C35_AppendStep]_vars
\* a shape joined a draw call behind the barrier while a draw call of the same
\* state lies before the barrier
C35_Witness ==
    /\ last_call.op \in DrawOps
    /\ last_call.status = "ok"
    /\ list.m_dc_barrier_index >= 1
    /\ VerticesOf(list, list.m_target_dc_index + 1) > DrawnVertices(last_call)
    /\ \E k \in 1..list.m_dc_barrier_index : DrawCallState(list.m_draw_calls[k]) = CurrentState(list)
\* appended draw calls behind a recorded one
C35_AppendWitness ==
    /\ last_call.op = "append_draw_list"
    /\ Len(last_call.args[1].m_draw_calls) >= 1
    /\ Len(list.m_draw_calls) > Len(last_call.args[1].m_draw_calls)

(* ------------------------ shape draw list: buffers --------------------- *)
\* the buffers close() mapped in the last call
MappedBuffers == { backend[i] : i \in { k \in 1..Len(backend) : last_call.op = "close" /\ backend[k].fn = "map" } }

\* C36: whenever close() maps the vertex or the index buffer, the buffer exists
\* and its capacity is at least the number of elements packed into it.
C36_MappedBufferHoldsData ==
    \A m \in MappedBuffers : m.exists /\ m.capacity >= m.needed
\* capacities never decrease and a buffer is replaced only by a close() that
\* needs more than the capacity
C36_CapacityStep ==
    /\ list'.m_vertex_buffer_capacity >= list.m_vertex_buffer_capacity
    /\ list'.m_index_buffer_capacity >= list.m_index_buffer_capacity
    /\ list'.m_vertex_buffer # list.m_vertex_buffer =>
          last_call'.op = "close" /\ list'.m_vertex_buffer.capacity > list.m_vertex_buffer_capacity
    /\ list'.m_index_buffer # list.m_index_buffer =>
          last_call'.op = "close" /\ list'.m_index_buffer.capacity > list.m_index_buffer_capacity
C36_CapacitiesGrow == [][C36_CapacityStep]_vars

(* --------------------------- relocation of ranges ---------------------- *)
\* the arguments of the last relocation
RelocatedCount(call) == call.args[3] - call.args[2]
\* the destination holds what the source held, in the same order
HoldsSource(before, after, d_first, first, n) ==
    \A k \in 0..(n - 1) : after[d_first + k + 1] = before[first + k + 1]

\* move_relocate_range with a destination that does not start inside the source
C37_ForwardStep ==
    (/\ last_call'.op = "move_relocate_range"
     /\ relocated.pc = "constructed"
     /\ ~(last_call'.args[4] >= last_call'.args[2] /\ last_call'.args[4] < last_call'.args[3])) =>
        /\ HoldsSource(relocated.memory, relocated'.memory, last_call'.args[4], last_call'.args[2], RelocatedCount(last_call'))
        /\ relocated'.result = last_call'.args[4] + RelocatedCount(last_call')
\* move_relocate_range_backward with a destination that does not end inside the source
C37_BackwardStep ==
    (/\ last_call'.op = "move_relocate_range_backward"
     /\ relocated.pc = "constructed"
     /\ ~(last_call'.args[4] > last_call'.args[2] /\ last_call'.args[4] <= last_call'.args[3])) =>
        /\ HoldsSource(relocated.memory, relocated'.memory, last_call'.args[4] - RelocatedCount(last_call'), last_call'.args[2], RelocatedCount(last_call'))
        /\ relocated'.result = last_call'.args[4] - RelocatedCount(last_call')

\* C37: move_relocate_range(first, last, d_first) with d_first not inside
\* [first, last), overlapping ranges included, leaves the destination holding
\* the original source elements in their order and returns d_first + (last -
\* first); move_relocate_range_backward does the same for a destination whose
\* end is not inside (first, last] and returns d_last - (last - first).
C37_RelocationKeepsOrder == [][C37_ForwardStep /\ C37_BackwardStep]_vars
\* an element-by-element forward relocation of three objects to an overlapping
\* destination that starts before the source
C37_Witness ==
    /\ last_call.op = "move_relocate_range"
    /\ last_call.args[1] = "not_trivially_relocatable"
    /\ RelocatedCount(last_call) = 3
    /\ last_call.args[4] < last_call.args[2]
    /\ last_call.args[4] + 3 > last_call.args[2]
    /\ relocated.pc = "relocated"
\* the same backward, to a destination that ends after the source
C37_BackwardWitness ==
    /\ last_call.op = "move_relocate_range_backward"
    /\ last_call.args[1] = "iterator"
    /\ RelocatedCount(last_call) = 3
    /\ last_call.args[4] > last_call.args[3]
    /\ last_call.args[4] - 3 < last_call.args[3]
    /\ relocated.pc = "relocated"
====
